---- MODULE Spec2Model ----
(***************************************************************************)
(* Model of the CLMM spread probes of conduitt/clamm_spreads:              *)
(*   orca_probe      src/src/orca_probe.ts                                 *)
(*   legacy Orca     src/src/csv.ts (lines 35..403)                        *)
(*   raydium_probe   src/src/raydium_probe.ts                              *)
(*   alt Raydium     src/unnamed/part_001                                  *)
(* and of the CSV appender they share (src/src/csv.ts, mkCsvAppender).     *)
(*                                                                         *)
(* JavaScript numbers are modelled as exact rationals <<n, d>> extended    *)
(* with the IEEE special values: <<1,0>> is Infinity, <<-1,0>> is          *)
(* -Infinity and <<0,0>> is NaN. Rounding error of doubles is not          *)
(* modelled; division by zero, NaN propagation and comparisons with NaN    *)
(* are. BN / bigint values are integers.                                   *)
(***************************************************************************)
EXTENDS Integers, Sequences, FiniteSets, TLC

(***************************************************************************)
(* Bounds of the model.                                                    *)
(***************************************************************************)
\* longest --sizes list a run is started with
MaxSizes == 2
\* number of probe runs appended to one CSV path (specification SpecRuns)
MaxRuns == 2
\* fractional bits of the fixed-point sqrt price (2^64 in the source, scaled
\* down to stay inside TLC's 32-bit integers)
FracBits == 2
\* the width of a double's mantissa (53 bits), on the scale of FracBits
MantBits == 3
\* how many calls of a price helper are followed
MaxEvals == 2
\* the delay --sleepMs asks for, in ticks of the clock, when one is configured
SleepMs == 5

(***************************************************************************)
(* JavaScript number arithmetic.                                           *)
(***************************************************************************)
Abs(x) == IF x < 0 THEN -x ELSE x

Sgn(x) == IF x < 0 THEN -1 ELSE IF x > 0 THEN 1 ELSE 0

RECURSIVE GCD(_, _)
GCD(a, b) == IF b = 0 THEN a ELSE GCD(b, a % b)

RECURSIVE Pow10(_)
Pow10(k) == IF k <= 0 THEN 1 ELSE 10 * Pow10(k - 1)

RECURSIVE Pow2(_)
Pow2(k) == IF k <= 0 THEN 1 ELSE 2 * Pow2(k - 1)

\* the number n/d in lowest terms with a non-negative denominator
Num(n, d) ==
  IF d = 0 THEN <<Sgn(n), 0>>
  ELSE LET g == GCD(Abs(n), Abs(d))
           s == IF d < 0 THEN -1 ELSE 1
       IN  <<(s * n) \div g, (s * d) \div g>>

I(n) == <<n, 1>>
NaN == <<0, 0>>
Infinity == <<1, 0>>
Zero == <<0, 1>>
One == <<1, 1>>

IsNaN(x) == x[1] = 0 /\ x[2] = 0
IsFinite(x) == x[2] # 0
\* JavaScript truthiness of a number: 0 and NaN are falsy
Truthy(x) == ~IsNaN(x) /\ x[1] # 0

Mul(x, y) ==
  LET g1 == GCD(Abs(x[1]), Abs(y[2]))
      g2 == GCD(Abs(y[1]), Abs(x[2]))
      a == IF g1 = 0 THEN x[1] ELSE x[1] \div g1
      d == IF g1 = 0 THEN y[2] ELSE y[2] \div g1
      c == IF g2 = 0 THEN y[1] ELSE y[1] \div g2
      b == IF g2 = 0 THEN x[2] ELSE x[2] \div g2
  IN  Num(a * c, b * d)

Recip(x) == Num(x[2], x[1])

Div(x, y) == Mul(x, Recip(y))

Add(x, y) ==
  IF x[2] = 0 /\ y[2] = 0
    THEN (IF IsNaN(x) \/ IsNaN(y) \/ x[1] # y[1] THEN NaN ELSE x)
    ELSE LET g == GCD(x[2], y[2])
             xd == IF g = 0 THEN x[2] ELSE x[2] \div g
             yd == IF g = 0 THEN y[2] ELSE y[2] \div g
         IN  Num(x[1] * yd + y[1] * xd, xd * y[2])

Neg(x) == <<-x[1], x[2]>>

Sub(x, y) == Add(x, Neg(y))

\* x < y, false when either side is NaN
Lt(x, y) ==
  /\ ~IsNaN(x)
  /\ ~IsNaN(y)
  /\ IF x[2] = 0 /\ y[2] = 0 THEN x[1] < y[1] ELSE x[1] * y[2] < y[1] * x[2]

Gt(x, y) == Lt(y, x)

Le(x, y) == ~IsNaN(x) /\ ~IsNaN(y) /\ ~Lt(y, x)

\* Math.max(x, y)
MathMax(x, y) == IF IsNaN(x) \/ IsNaN(y) THEN NaN ELSE IF Lt(x, y) THEN y ELSE x

\* floor of a finite number
Floor(x) == x[1] \div x[2]

\* Math.round(x): nearest integer, halves up
MathRound(x) ==
  IF ~IsFinite(x) THEN x
  ELSE LET f == x[1] \div x[2]
           r == x[1] - f * x[2]
       IN  I(IF r + r >= x[2] THEN f + 1 ELSE f)

\* Number.prototype.toFixed(4): the number rounded to four decimals
ToFixed4(x) == IF IsFinite(x) THEN Div(MathRound(Mul(x, I(10000))), I(10000)) ELSE x

(***************************************************************************)
(* Well-known mints and symbols.                                           *)
(***************************************************************************)
USDC == "USDC"
SOL_MINT == "SOL"
WSOL == SOL_MINT
soBTC == "soBTC"
poolBTC == "poolBTC"
USDT == "USDT"
\* two mints the probes know nothing about
MintX == "X"
MintY == "Y"

BTC_MINTS == {soBTC, poolBTC}

\* fixed-point one of the sqrt price
Q64 == Pow2(FracBits)

\* orca_probe's MINT_SYMBOL / symbolForMint
OrcaSymbolForMint(mint) ==
  CASE mint = SOL_MINT -> "SOL"
    [] mint = USDC -> "USDC"
    [] mint = USDT -> "USDT"
    [] mint \in BTC_MINTS -> "BTC"
    [] OTHER -> ""

\* MINT_SYMBOL / symbolForMint of the legacy Orca probe and of raydium_probe
SymbolForMint(mint) ==
  CASE mint = SOL_MINT -> "SOL"
    [] mint = USDC -> "USDC"
    [] mint = USDT -> "USDT"
    [] OTHER -> ""

\* s || dflt on strings
OrElse(s, dflt) == IF s = "" THEN dflt ELSE s

(***************************************************************************)
(* The chain, as the probes read it.                                       *)
(***************************************************************************)
\* decimals stored in each mint account
ChainDecimals(mint) ==
  CASE mint = USDC -> 6
    [] mint = SOL_MINT -> 9
    [] mint \in BTC_MINTS -> 8
    [] OTHER -> 9

\* getMintDecimalsViaRPC: two hard-coded answers, else the parsed account
GetMintDecimalsViaRPC(mint) ==
  IF mint = WSOL THEN 9
  ELSE IF mint = USDC THEN 6
  ELSE ChainDecimals(mint)

\* ctx.fetcher.getMintInfo(mint)?.decimals ?? getMintDecimalsViaRPC(conn, mint)
MintDecimals(mint) == ChainDecimals(mint)

\* the token pairs of the pools a run may be pointed at
PoolPairs ==
  { <<SOL_MINT, USDC>>, <<USDC, SOL_MINT>>, <<SOL_MINT, poolBTC>>,
    <<MintX, SOL_MINT>>, <<MintX, MintY>>, <<poolBTC, MintX>> }

\* sqrt prices a pool account may hold: zero (a malformed account) and 1.0
SqrtPrices == {0, Q64}

\* raw fee rates: Orca stores ppm; Raydium's API may give a fraction
OrcaFeeRates == {<<400, 1>>}
RaydiumFeeRates == {<<1, 2500>>, <<400, 1>>}

\* the fields of a pool account no probe computes with
PoolExtras == [tickSpacing |-> <<64, 1>>, protocolFeeRate |-> <<300, 1>>,
               liquidity |-> 1000, tickCurrentIndex |-> <<0, 1>>]

Account(found, clmm, mintA, mintB, sqrtPrice, feeRate) ==
  [found |-> found, clmm |-> clmm, mintA |-> mintA, mintB |-> mintB,
   sqrtPrice |-> sqrtPrice, feeRate |-> feeRate,
   tickSpacing |-> PoolExtras.tickSpacing,
   protocolFeeRate |-> PoolExtras.protocolFeeRate,
   liquidity |-> PoolExtras.liquidity,
   tickCurrentIndex |-> PoolExtras.tickCurrentIndex]

\* no such account: getPool throws, fetchPoolById returns nothing
NoPool == Account(FALSE, FALSE, "", "", 0, Zero)

\* what client.getPool / raydium.api.fetchPoolById may return for --pool
PoolAccounts(feeRates) ==
  { Account(TRUE, TRUE, pr[1], pr[2], sp, fr) :
       pr \in PoolPairs, sp \in SqrtPrices, fr \in feeRates }

\* a pool that exists but is not a concentrated-liquidity pool
NonClmmPool == Account(TRUE, FALSE, SOL_MINT, USDC, Q64, <<400, 1>>)

\* the pools an --oraclePool argument may name
OraclePairs == { <<poolBTC, USDC>>, <<USDC, MintX>>, <<MintX, MintY>> }

OracleAccounts ==
  { Account(TRUE, TRUE, pr[1], pr[2], Q64, <<400, 1>>) : pr \in OraclePairs }

\* the hard-wired SOL/USDC Whirlpool of --usdMode
SolUsdAccounts ==
  { Account(TRUE, TRUE, SOL_MINT, USDC, Q64, <<400, 1>>) }

(***************************************************************************)
(* Price math.                                                             *)
(***************************************************************************)
\* 10^(k) for any integer k
Pow10Num(k) == IF k >= 0 THEN I(Pow10(k)) ELSE Num(1, Pow10(-k))

\* calcPxBperA_fromSqrt: (sqrt / Q64)^2 * 10^(decA - decB), B per A
calcPxBperA_fromSqrt(sqrtPriceX64, decA, decB) ==
  LET ratio == Num(sqrtPriceX64, Q64)
  IN  Mul(Mul(ratio, ratio), Pow10Num(decA - decB))

\* the number of bits of a non-negative integer
RECURSIVE BitLength(_)
BitLength(n) == IF n = 0 THEN 0 ELSE 1 + BitLength(n \div 2)

\* Number(bigint): the nearest double, ties to even; a double keeps the
\* leading MantBits bits of the integer
NumberOfBigInt(n) ==
  IF BitLength(n) <= MantBits THEN n
  ELSE LET unit == Pow2(BitLength(n) - MantBits)
           q == n \div unit
           r == n % unit
           up == (2 * r > unit) \/ (2 * r = unit /\ q % 2 = 1)
       IN  (IF up THEN q + 1 ELSE q) * unit

\* utils.ts midBPerA_fromSqrtX64: the same price computed in doubles
midBPerA_fromSqrtX64(sqrtPriceX64, decA, decB) ==
  LET ratio == Num(NumberOfBigInt(sqrtPriceX64), NumberOfBigInt(Q64))
  IN  Mul(Mul(ratio, ratio), Pow10Num(decA - decB))

\* a mid price that is never inverted: B per A whichever side holds USDC
midUsdPerBase_NoInvert(sqrtPriceX64, decA, decB, mintA, mintB) ==
  calcPxBperA_fromSqrt(sqrtPriceX64, decA, decB)

\* raydium_probe's midUsdPerBase_fromSqrt
midUsdPerBase_fromSqrt(sqrtPriceX64, decA, decB, mintA, mintB) ==
  LET pxBperA == calcPxBperA_fromSqrt(sqrtPriceX64, decA, decB)
      isUsdA == mintA = USDC
      isUsdB == mintB = USDC
  IN  IF isUsdB THEN pxBperA
      ELSE IF isUsdA THEN Div(One, pxBperA)
      ELSE pxBperA

\* the alternate Raydium probe's midUsdPerA_fromSqrt
midUsdPerA_fromSqrt(sqrtPriceX64, decA, decB, mintA, mintB) ==
  LET pxBperA == calcPxBperA_fromSqrt(sqrtPriceX64, decA, decB)
  IN  IF mintB = USDC THEN pxBperA
      ELSE IF mintA = USDC THEN Div(One, pxBperA)
      ELSE pxBperA

\* normalizeFeePpm with every fee below 1 ppm count taken as it is
normalizeFeePpm_NoFraction(raw) ==
  IF ~IsFinite(raw) \/ raw = Zero THEN Zero ELSE MathRound(raw)

\* normalizeFeePpm of the Raydium probes
normalizeFeePpm(raw) ==
  IF ~IsFinite(raw) \/ raw = Zero THEN Zero
  ELSE IF Gt(raw, Zero) /\ Lt(raw, One) THEN MathRound(Mul(raw, I(1000000)))
  ELSE MathRound(raw)

\* toBps
toBps(x) == Mul(x, I(10000))

(***************************************************************************)
(* CSV headers of the four probes.                                         *)
(***************************************************************************)
\* the columns every probe starts with, after ts_utc (and dex)
PoolColumns ==
  << "pool", "program_id", "tick_spacing", "fee_ppm", "fee_bps",
     "protocol_fee_ppm", "liquidity_u128", "sqrt_price_x64", "tick_current" >>

TokenColumns ==
  << "mintA", "decA", "symbolA", "mintB", "decB", "symbolB",
     "base_mint", "base_decimals", "base_symbol",
     "quote_mint", "quote_decimals", "quote_symbol" >>

\* csvHeader() of orca_probe
OrcaCsvHeader ==
  << "ts_utc", "dex" >> \o PoolColumns \o TokenColumns \o
  << "size_unit", "price_unit",
     "mid_quote_per_base", "mid_usd_per_base",
     "buy_px_quote_per_base", "sell_px_quote_per_base",
     "buy_px_usd_per_base", "sell_px_usd_per_base",
     "usd_per_quote", "size_value",
     "roundtrip_bps", "fee_bps_total", "impact_bps_total",
     "buy_out_base", "sell_in_base", "buy_fee_quote", "sell_fee_base" >>

\* the unified schema: csvHeader() of the legacy Orca probe
UnifiedCsvHeader ==
  << "ts_utc", "dex" >> \o PoolColumns \o TokenColumns \o
  << "usd_per_quote", "mid_usd_per_base", "usd_notional",
     "buy_px_usd_per_base", "sell_px_usd_per_base",
     "roundtrip_bps", "fee_bps_total", "impact_bps_total",
     "buy_out_base", "sell_in_base", "buy_fee_quote", "sell_fee_base" >>

LegacyCsvHeader == UnifiedCsvHeader

\* csvHeader() of raydium_probe
RaydiumCsvHeader ==
  << "ts_utc", "dex" >> \o PoolColumns \o TokenColumns \o
  << "usd_per_quote", "mid_usd_per_base", "usd_notional",
     "buy_px_usd_per_base", "sell_px_usd_per_base",
     "roundtrip_bps", "fee_bps_total", "impact_bps_total",
     "buy_out_base", "sell_in_base", "buy_fee_quote", "sell_fee_base" >>

\* csvHeader() of the alternate Raydium probe
AltCsvHeader ==
  << "ts_utc" >> \o PoolColumns \o
  << "mintA", "decA", "mintB", "decB",
     "mid_usd_per_A", "usd_notional", "buy_exec_px", "sell_exec_px",
     "roundtrip_bps", "fee_bps_total", "impact_bps_total",
     "buy_qty_out_A", "sell_qty_in_A", "buy_fee_usd", "sell_fee_usd",
     "sell_fee_A" >>

Probes == {"orca_probe", "legacy_orca", "raydium_probe", "raydium_alt"}

csvHeader(p) ==
  CASE p = "orca_probe" -> OrcaCsvHeader
    [] p = "legacy_orca" -> LegacyCsvHeader
    [] p = "raydium_probe" -> RaydiumCsvHeader
    [] OTHER -> AltCsvHeader

(***************************************************************************)
(* Rows. A cell carries the expression the source writes at that place     *)
(* (src) and its value (val); a row is the array handed to csv.write.      *)
(***************************************************************************)
Cell(src, val) == [src |-> src, val |-> val]

NaNCell == Cell("NaN", NaN)

\* the pool part of a row, the same expressions in try and catch
PoolCells(st, dex, ts) ==
  << Cell("ts", ts) >> \o dex \o
  << Cell("pool", st.pool), Cell("programId", st.programId),
     Cell("tickSpacing", st.tickSpacing), Cell("feePpm", st.feePpm),
     Cell("feeBps_one_leg", ToFixed4(st.feeBps_one_leg)),
     Cell("protoFeePpm", st.protoFeePpm), Cell("liquidity", st.liquidity),
     Cell("sqrtPriceX64", st.sqrtPriceX64), Cell("tickCurrent", st.tickCurrent) >>

MintCells(st) ==
  << Cell("mintA", st.mintA), Cell("decA", st.decA), Cell("symbolA", st.symbolA),
     Cell("mintB", st.mintB), Cell("decB", st.decB), Cell("symbolB", st.symbolB) >>

BaseCells(st) ==
  << Cell("baseMint", st.baseMint), Cell("baseDecs", st.baseDecs),
     Cell("baseSymbol", st.baseSymbol) >>

QuoteCells(st) ==
  << Cell("quoteMint", st.quoteMint), Cell("quoteDecimals", st.quoteDecimals),
     Cell("quoteSymbol", st.quoteSymbol) >>

\* orca_probe, the csv?.write of the try block; m holds the iteration's locals
OrcaSuccessRow(st, ts, size, m) ==
  PoolCells(st, << Cell("dex", "orca") >>, ts) \o MintCells(st) \o
  BaseCells(st) \o QuoteCells(st) \o
  << Cell("sizeUnit", st.sizeUnit), Cell("priceUnit", st.priceUnit),
     Cell("mid_quote", m.mid_quote), Cell("mid_usd", m.mid_usd),
     Cell("buy_quote", m.buy_quote), Cell("sell_quote", m.sell_quote),
     Cell("buy_usd", m.buy_usd), Cell("sell_usd", m.sell_usd),
     Cell("usdPerQuote", st.usdPerQuote), Cell("size", size),
     Cell("rt_bps", m.rt_bps), Cell("feeBps_roundtrip", st.feeBps_roundtrip),
     Cell("impact_bps", m.impact_bps),
     Cell("buyOutBase", m.buyOutBase), Cell("sellInBase", m.sellInBase),
     Cell("buyFeeQuote", m.buyFeeQuote), Cell("sellFeeBase", m.sellFeeBase) >>

\* orca_probe, the csv?.write of the catch block
OrcaFailureRow(st, ts, size) ==
  PoolCells(st, << Cell("dex", "orca") >>, ts) \o MintCells(st) \o
  << Cell("quoteMint", st.quoteMint), Cell("quoteDecimals", st.quoteDecimals),
     Cell("quoteSymbol", OrElse(OrcaSymbolForMint(st.quoteMint), "QUOTE")),
     Cell("sizeUnit", st.sizeUnit), Cell("priceUnit", st.priceUnit),
     NaNCell, NaNCell, NaNCell, NaNCell, NaNCell, NaNCell,
     NaNCell, Cell("size", size),
     NaNCell, Cell("feeBps_roundtrip", st.feeBps_roundtrip), NaNCell,
     NaNCell, NaNCell, NaNCell, NaNCell >>

\* legacy Orca probe, try block
LegacySuccessRow(st, ts, usd, m) ==
  PoolCells(st, << Cell("dex", "orca") >>, ts) \o MintCells(st) \o
  BaseCells(st) \o QuoteCells(st) \o
  << Cell("usdPerQuote", st.usdPerQuote), Cell("midUSDperBase", st.midUSDperBase),
     Cell("usd", usd),
     Cell("buyExecPx", m.buyPx), Cell("sellExecPx", m.sellPx),
     Cell("rt_bps", m.rt_bps), Cell("feeBps_roundtrip", st.feeBps_roundtrip),
     Cell("impact_bps", m.impact_bps),
     Cell("buyOutBase", m.buyOutBase), Cell("sellInBase", m.sellInBase),
     Cell("buyFeeQuote", m.buyFeeQuote), Cell("sellFeeBase", m.sellFeeBase) >>

\* a catch row that repeats the quote token in the base-token columns
LegacyFailureRow_QuoteAsBase(st, ts, usd) ==
  PoolCells(st, << Cell("dex", "orca") >>, ts) \o MintCells(st) \o
  << Cell("baseMint", st.quoteMint), Cell("baseDecs", st.quoteDecimals),
     Cell("baseSymbol", st.quoteSymbol) >> \o QuoteCells(st) \o
  << Cell("usdPerQuote", st.usdPerQuote), NaNCell, Cell("usd", usd),
     NaNCell, NaNCell, NaNCell,
     Cell("feeBps_roundtrip", st.feeBps_roundtrip), NaNCell,
     NaNCell, NaNCell, NaNCell, NaNCell >>

\* legacy Orca probe, catch block
LegacyFailureRow(st, ts, usd) ==
  PoolCells(st, << Cell("dex", "orca") >>, ts) \o MintCells(st) \o
  BaseCells(st) \o QuoteCells(st) \o
  << Cell("usdPerQuote", st.usdPerQuote), NaNCell, Cell("usd", usd),
     NaNCell, NaNCell, NaNCell,
     Cell("feeBps_roundtrip", st.feeBps_roundtrip), NaNCell,
     NaNCell, NaNCell, NaNCell, NaNCell >>

\* raydium_probe, try block
RaydiumSuccessRow(st, ts, usd, m) ==
  PoolCells(st, << Cell("dex", "raydium") >>, ts) \o MintCells(st) \o
  BaseCells(st) \o QuoteCells(st) \o
  << Cell("usdPerQuote", st.usdPerQuote), Cell("midUSDperBase", st.midUSDperBase),
     Cell("usd", usd),
     Cell("buyExecPx", m.buyPx), Cell("sellExecPx", m.sellPx),
     Cell("rt_bps", m.rt_bps), Cell("feeBps_roundtrip", st.feeBps_roundtrip),
     Cell("impact_bps", m.impact_bps),
     Cell("buyOutBase", m.buyOutBase), Cell("sellInBase", m.sellInBase),
     Cell("buyFeeQuote", m.buyFeeQuote), Cell("sellFeeBase", m.sellFeeBase) >>

\* raydium_probe, catch block
RaydiumFailureRow(st, ts, usd) ==
  PoolCells(st, << Cell("dex", "raydium") >>, ts) \o MintCells(st) \o
  BaseCells(st) \o QuoteCells(st) \o
  << Cell("1", One), NaNCell, Cell("usd", usd),
     NaNCell, NaNCell, NaNCell,
     Cell("feeBps_roundtrip", st.feeBps_roundtrip), NaNCell,
     NaNCell, NaNCell, NaNCell, NaNCell >>

AltMintCells(st) ==
  << Cell("mintA", st.mintA), Cell("decA", st.decA),
     Cell("mintB", st.mintB), Cell("decB", st.decB) >>

\* alternate Raydium probe, try block
AltSuccessRow(st, ts, usd, m) ==
  PoolCells(st, << >>, ts) \o AltMintCells(st) \o
  << Cell("midUSDperA", st.midUSDperBase), Cell("usd", usd),
     Cell("buyExecPx", m.buyPx), Cell("sellExecPx", m.sellPx),
     Cell("rt_bps", m.rt_bps), Cell("feeBps_roundtrip", st.feeBps_roundtrip),
     Cell("impact_bps", m.impact_bps),
     Cell("buyOutBase", m.buyOutBase), Cell("sellInBase", m.sellInBase),
     Cell("buyFeeUSD", m.buyFeeQuote), Cell("sellFeeUSD", m.sellFeeUSD),
     Cell("feeA", m.sellFeeBase) >>

\* alternate Raydium probe, catch block
AltFailureRow(st, ts, usd) ==
  PoolCells(st, << >>, ts) \o AltMintCells(st) \o
  << Cell("midUSDperA", st.midUSDperBase), Cell("usd", usd),
     NaNCell, NaNCell, NaNCell,
     Cell("feeBps_roundtrip", st.feeBps_roundtrip), NaNCell,
     NaNCell, NaNCell, NaNCell, NaNCell, NaNCell >>

SuccessRow(p, st, ts, size, m) ==
  CASE p = "orca_probe" -> OrcaSuccessRow(st, ts, size, m)
    [] p = "legacy_orca" -> LegacySuccessRow(st, ts, size, m)
    [] p = "raydium_probe" -> RaydiumSuccessRow(st, ts, size, m)
    [] OTHER -> AltSuccessRow(st, ts, size, m)

FailureRow(p, st, ts, size) ==
  CASE p = "orca_probe" -> OrcaFailureRow(st, ts, size)
    [] p = "legacy_orca" -> LegacyFailureRow(st, ts, size)
    [] p = "raydium_probe" -> RaydiumFailureRow(st, ts, size)
    [] OTHER -> AltFailureRow(st, ts, size)

(***************************************************************************)
(* Command line.                                                           *)
(***************************************************************************)
\* --range as the user gave it: absent, or a string; colon says whether
\* the string holds ":"; a, b, s are Number() of its three parts
NoRange == [given |-> FALSE, colon |-> FALSE, a |-> NaN, b |-> NaN, s |-> NaN]
EmptyRange == [given |-> TRUE, colon |-> FALSE, a |-> NaN, b |-> NaN, s |-> NaN]
Range(a, b, s) == [given |-> TRUE, colon |-> TRUE, a |-> a, b |-> b, s |-> s]

\* for (let v = a; v <= b; v += s) out.push(v)
RECURSIVE RangeLoop(_, _, _)
RangeLoop(v, b, s) == IF Le(v, b) THEN << v >> \o RangeLoop(Add(v, s), b, s) ELSE << >>

\* parseSizes with the n > 0 filter applied to the values of a range as well
parseSizes_PositiveOnly(argvSizes, rng) ==
  SelectSeq(IF rng.given /\ rng.colon /\ IsFinite(rng.a) /\ IsFinite(rng.b)
                 /\ IsFinite(rng.s) /\ Gt(rng.s, Zero)
              THEN RangeLoop(rng.a, rng.b, rng.s)
              ELSE argvSizes,
            LAMBDA n : Gt(n, Zero))

\* parseSizes, the same function in all four probes; argvSizes is the
\* --sizes string after split(",") and Number(), rng the --range argument
parseSizes(argvSizes, rng) ==
  IF rng.given /\ rng.colon /\ IsFinite(rng.a) /\ IsFinite(rng.b)
       /\ IsFinite(rng.s) /\ Gt(rng.s, Zero)
    THEN RangeLoop(rng.a, rng.b, rng.s)
    ELSE SelectSeq(argvSizes, LAMBDA n : Gt(n, Zero))

\* the Raydium probes' default for --range, "5000:50000:5000" in the source:
\* ten sizes, scaled here to the two sizes 1 and 2
RaydiumDefaultRange == Range(I(1), I(2), I(1))

\* argv.range as the probe sees it after its defaults
RangeOf(p, rng) ==
  IF p \in {"raydium_probe", "raydium_alt"} /\ ~rng.given
    THEN RaydiumDefaultRange ELSE rng

SizeValues == {I(1), I(2)}

RECURSIVE SeqsUpTo(_, _)
SeqsUpTo(S, n) ==
  IF n = 0 THEN { << >> }
  ELSE LET shorter == SeqsUpTo(S, n - 1)
       IN  shorter \cup { Append(q, x) : q \in shorter, x \in S }

\* what --sizes may parse to
SizesArgs == SeqsUpTo(SizeValues, MaxSizes)

RangeArgs == { NoRange, EmptyRange, Range(I(1), I(2), I(1)) }

UnitArgs == {"", "usd", "quote"}

\* the options of one run; "" is an option that was not given
Argv(p) ==
  IF p = "orca_probe" THEN
    [ usdMode : BOOLEAN, sizeUnit : UnitArgs, priceUnit : UnitArgs,
      quoteMint : {""}, oraclePool : BOOLEAN, usdMint : {USDC},
      sleepMs : {0}, csv : BOOLEAN ]
  ELSE IF p = "legacy_orca" THEN
    [ usdMode : {FALSE}, sizeUnit : {""}, priceUnit : {""},
      quoteMint : {""}, oraclePool : BOOLEAN, usdMint : {USDC},
      sleepMs : {0}, csv : BOOLEAN ]
  ELSE
    [ usdMode : {FALSE}, sizeUnit : {""}, priceUnit : {""},
      quoteMint : {""}, oraclePool : {FALSE}, usdMint : {USDC},
      sleepMs : {0}, csv : BOOLEAN ]

(***************************************************************************)
(* Unit resolution.                                                        *)
(***************************************************************************)
\* orca_probe's pickQuoteMint
pickQuoteMint(mintA, mintB, userQuote) ==
  IF userQuote # "" THEN userQuote
  ELSE IF mintA = USDC \/ mintB = USDC THEN (IF mintA = USDC THEN mintA ELSE mintB)
  ELSE IF mintA \in BTC_MINTS \/ mintB \in BTC_MINTS
    THEN (IF mintA \in BTC_MINTS THEN mintA ELSE mintB)
  ELSE mintB

\* the legacy Orca probe's pickQuoteMint
LegacyPickQuoteMint(mintA, mintB, userQuote) ==
  IF userQuote # "" THEN userQuote
  ELSE IF mintA = USDC THEN mintA
  ELSE IF mintB = USDC THEN mintB
  ELSE mintB

\* an optional number that is absent (undefined is falsy, as NaN is)
Undefined == NaN

NoRate == [null |-> TRUE, usdPerQuote |-> Undefined, usdPerBase |-> Undefined]

\* usdFromOracle with the base pairing's cross rate multiplied, not divided
usdFromOracle_CrossMultiplied(acc, quoteMint, baseMint, pxQuotePerBase, usdMint) ==
  IF ~acc.found THEN NoRate
  ELSE
    LET mintA == acc.mintA
        mintB == acc.mintB
        pxBperA == calcPxBperA_fromSqrt(acc.sqrtPrice, MintDecimals(mintA),
                                        MintDecimals(mintB))
    IN  IF mintA = quoteMint /\ mintB = usdMint
          THEN [null |-> FALSE, usdPerQuote |-> pxBperA, usdPerBase |-> Undefined]
        ELSE IF mintB = quoteMint /\ mintA = usdMint
          THEN [null |-> FALSE, usdPerQuote |-> Div(One, pxBperA),
                usdPerBase |-> Undefined]
        ELSE IF mintA = baseMint /\ mintB = usdMint
          THEN [null |-> FALSE, usdPerBase |-> pxBperA,
                usdPerQuote |-> Mul(pxBperA, pxQuotePerBase)]
        ELSE IF mintB = baseMint /\ mintA = usdMint
          THEN [null |-> FALSE, usdPerBase |-> Div(One, pxBperA),
                usdPerQuote |-> Mul(Div(One, pxBperA), pxQuotePerBase)]
        ELSE NoRate

\* orca_probe's usdFromOracle; acc is the account --oraclePool names
usdFromOracle(acc, quoteMint, baseMint, pxQuotePerBase, usdMint) ==
  IF ~acc.found THEN NoRate
  ELSE
    LET mintA == acc.mintA
        mintB == acc.mintB
        pxBperA == calcPxBperA_fromSqrt(acc.sqrtPrice, MintDecimals(mintA),
                                        MintDecimals(mintB))
    IN  IF mintA = quoteMint /\ mintB = usdMint
          THEN [null |-> FALSE, usdPerQuote |-> pxBperA, usdPerBase |-> Undefined]
        ELSE IF mintB = quoteMint /\ mintA = usdMint
          THEN [null |-> FALSE, usdPerQuote |-> Div(One, pxBperA),
                usdPerBase |-> Undefined]
        ELSE IF mintA = baseMint /\ mintB = usdMint
          THEN [null |-> FALSE, usdPerBase |-> pxBperA,
                usdPerQuote |-> Div(pxBperA, pxQuotePerBase)]
        ELSE IF mintB = baseMint /\ mintA = usdMint
          THEN [null |-> FALSE, usdPerBase |-> Div(One, pxBperA),
                usdPerQuote |-> Div(Div(One, pxBperA), pxQuotePerBase)]
        ELSE NoRate

\* the legacy Orca probe's usdPerQuoteFromOracle; NaN stands for null
usdPerQuoteFromOracle(acc, quoteMint) ==
  IF ~acc.found THEN NaN
  ELSE
    LET pxBperA == calcPxBperA_fromSqrt(acc.sqrtPrice, MintDecimals(acc.mintA),
                                        MintDecimals(acc.mintB))
    IN  IF acc.mintA = quoteMint /\ acc.mintB = USDC THEN pxBperA
        ELSE IF acc.mintB = quoteMint /\ acc.mintA = USDC THEN Div(One, pxBperA)
        ELSE NaN

(***************************************************************************)
(* main() up to the size loop: the pool snapshot and the unit              *)
(* configuration. Each returns [fatal, why, st, cfg]: fatal with the       *)
(* reason when main throws or exits before the loop, else the snapshot st  *)
(* the loop reads. t is the time of the pool fetch.                        *)
(***************************************************************************)
NoSnapshot ==
  [pool |-> "", programId |-> "", tickSpacing |-> Zero, feePpm |-> Zero,
   feeBps_one_leg |-> Zero, feeBps_roundtrip |-> Zero, protoFeePpm |-> Zero,
   liquidity |-> 0, sqrtPriceX64 |-> 0, tickCurrent |-> Zero,
   mintA |-> "", decA |-> 0, symbolA |-> "", mintB |-> "", decB |-> 0,
   symbolB |-> "", baseMint |-> "", baseDecs |-> 0, baseSymbol |-> "",
   quoteMint |-> "", quoteDecimals |-> 0, quoteSymbol |-> "",
   sizeUnit |-> "", priceUnit |-> "", pxQuotePerBase |-> NaN,
   midUSDperBase |-> NaN, usdPerQuote |-> NaN, usdPerBase |-> NaN,
   haveUSD |-> FALSE, usingSolUsdLive |-> FALSE, solUsdPrice |-> Undefined,
   oracleMintA |-> "", oracleMintB |-> "", oracleSqrtPrice |-> 0, snap |-> 0]

Fatal(why, cfg) == [fatal |-> TRUE, why |-> why, st |-> NoSnapshot, cfg |-> cfg]

Ready(st, cfg) == [fatal |-> FALSE, why |-> "", st |-> st, cfg |-> cfg]

\* the fields every probe copies from the pool account
PoolFields(acc, t, programId, feePpm, protoFeePpm, decA, decB, symA, symB) ==
  [NoSnapshot EXCEPT
     !.pool = "POOL", !.programId = programId,
     !.tickSpacing = acc.tickSpacing, !.feePpm = feePpm,
     !.feeBps_one_leg = Div(feePpm, I(100)),
     !.feeBps_roundtrip = Mul(Div(feePpm, I(100)), I(2)),
     !.protoFeePpm = protoFeePpm, !.liquidity = acc.liquidity,
     !.sqrtPriceX64 = acc.sqrtPrice, !.tickCurrent = acc.tickCurrentIndex,
     !.mintA = acc.mintA, !.decA = decA, !.symbolA = symA,
     !.mintB = acc.mintB, !.decB = decB, !.symbolB = symB, !.snap = t]

\* orca_probe: the USD conversions (needed if sizeUnit=usd or priceUnit=usd).
\* Returns [fatal, why, usdPerQuote, usdPerBase, haveUSD, usingSolUsdLive,
\* solUsdPrice].
OrcaUsdConversions(cfg, sizeUnit, priceUnit, quoteMint, baseMint, pxQuotePerBase, solAcc, orcAcc) ==
  LET usdMint == IF cfg.usdMint # "" THEN cfg.usdMint ELSE USDC
      needUSD == sizeUnit = "usd" \/ priceUnit = "usd"
      none == [fatal |-> FALSE, why |-> "", usdPerQuote |-> NaN,
               usdPerBase |-> NaN, haveUSD |-> FALSE,
               usingSolUsdLive |-> FALSE, solUsdPrice |-> Undefined,
               oracleMintA |-> "", oracleMintB |-> "", oracleSqrtPrice |-> 0]
      \* the oracle pool's mints and sqrt price, once usdFromOracle has read them
      seen == IF orcAcc.found
                THEN [none EXCEPT !.oracleMintA = orcAcc.mintA,
                                  !.oracleMintB = orcAcc.mintB,
                                  !.oracleSqrtPrice = orcAcc.sqrtPrice]
                ELSE none
  IN
  IF needUSD /\ cfg.usdMode /\ quoteMint = SOL_MINT THEN
    IF ~solAcc.found THEN [none EXCEPT !.fatal = TRUE, !.why = "sol_usd_pool"]
    ELSE
      LET px == calcPxBperA_fromSqrt(solAcc.sqrtPrice, MintDecimals(solAcc.mintA),
                                     MintDecimals(solAcc.mintB))
      IN  IF solAcc.mintA = SOL_MINT /\ solAcc.mintB = USDC
            THEN [none EXCEPT !.usdPerQuote = px,
                              !.usdPerBase = Mul(pxQuotePerBase, px),
                              !.haveUSD = TRUE, !.usingSolUsdLive = TRUE,
                              !.solUsdPrice = px]
          ELSE IF solAcc.mintB = SOL_MINT /\ solAcc.mintA = USDC
            THEN [none EXCEPT !.usdPerQuote = Div(One, px),
                              !.usdPerBase = Mul(pxQuotePerBase, Div(One, px)),
                              !.haveUSD = TRUE, !.usingSolUsdLive = TRUE,
                              !.solUsdPrice = Div(One, px)]
          ELSE [none EXCEPT !.fatal = TRUE, !.why = "sol_usd_pool"]
  ELSE IF needUSD THEN
    IF quoteMint = usdMint \/ quoteMint = USDC
      THEN [none EXCEPT !.usdPerQuote = One, !.usdPerBase = Mul(pxQuotePerBase, One),
                        !.haveUSD = TRUE]
    ELSE IF ~cfg.oraclePool
      THEN [none EXCEPT !.fatal = TRUE, !.why = "no_oracle"]
    ELSE
      LET orc == usdFromOracle(orcAcc, quoteMint, baseMint, pxQuotePerBase, usdMint)
      IN  IF orc.null \/ (~Truthy(orc.usdPerQuote) /\ ~Truthy(orc.usdPerBase))
            THEN [none EXCEPT !.fatal = TRUE, !.why = "oracle_pair"]
          ELSE IF Truthy(orc.usdPerQuote)
            THEN [seen EXCEPT !.usdPerQuote = orc.usdPerQuote,
                              !.usdPerBase = Mul(pxQuotePerBase, orc.usdPerQuote),
                              !.haveUSD = TRUE]
          ELSE [seen EXCEPT !.usdPerBase = orc.usdPerBase,
                            !.usdPerQuote = Div(orc.usdPerBase, pxQuotePerBase),
                            !.haveUSD = TRUE]
  ELSE none

\* a unit flag after yargs: undefined unless the user passed one
Given(unit) == unit # ""

\* the unit resolution with --usdMode overriding a unit the user gave
ResolveUnit_UsdModeForces(given, usdMode, usdcInPool) ==
  LET dflt == IF usdcInPool THEN "usd" ELSE "quote"
      unit == IF Given(given) THEN given ELSE dflt
  IN  IF usdMode THEN "usd" ELSE unit

\* the size unit or the price unit main() settles on
ResolveUnit(given, usdMode, usdcInPool) ==
  LET dflt == IF usdcInPool THEN "usd" ELSE "quote"
      unit == IF Given(given) THEN given ELSE dflt
  IN  IF usdMode /\ ~Given(given) THEN "usd" ELSE unit

\* orca_probe main(), from client.getPool to the USD conversions
OrcaMain(cfg, acc, solAcc, orcAcc, t) ==
  IF ~acc.found THEN Fatal("pool_fetch", cfg)
  ELSE
    LET mintA == acc.mintA
        mintB == acc.mintB
        decA == MintDecimals(mintA)
        decB == MintDecimals(mintB)
        quoteMint == pickQuoteMint(mintA, mintB, cfg.quoteMint)
        \* auto-detect SOL: only argv.quoteMint is assigned
        cfg2 == IF cfg.quoteMint = "" /\ (mintA = SOL_MINT \/ mintB = SOL_MINT)
                  THEN [cfg EXCEPT !.quoteMint = SOL_MINT] ELSE cfg
        quoteIsA == quoteMint = mintA
        baseMint == IF quoteIsA THEN mintB ELSE mintA
        baseDecs == IF quoteIsA THEN decB ELSE decA
        quoteDecimals == IF quoteIsA THEN decA ELSE decB
        pxBperA == calcPxBperA_fromSqrt(acc.sqrtPrice, decA, decB)
        pxQuotePerBase == IF quoteIsA THEN Div(One, pxBperA) ELSE pxBperA
        usdcInPool == mintA = USDC \/ mintB = USDC
        sizeUnit == ResolveUnit(cfg.sizeUnit, cfg.usdMode, usdcInPool)
        priceUnit == ResolveUnit(cfg.priceUnit, cfg.usdMode, usdcInPool)
        usd == OrcaUsdConversions(cfg2, sizeUnit, priceUnit, quoteMint, baseMint,
                                  pxQuotePerBase, solAcc, orcAcc)
        feePpm == acc.feeRate
        base == PoolFields(acc, t, "whirlpool", feePpm, acc.protocolFeeRate,
                           decA, decB, OrcaSymbolForMint(mintA),
                           OrcaSymbolForMint(mintB))
    IN  IF usd.fatal THEN Fatal(usd.why, cfg2)
        ELSE Ready(
          [base EXCEPT
             !.quoteMint = quoteMint, !.quoteDecimals = quoteDecimals,
             !.quoteSymbol = OrElse(OrcaSymbolForMint(quoteMint), "QUOTE"),
             !.baseMint = baseMint, !.baseDecs = baseDecs,
             !.baseSymbol = OrElse(OrcaSymbolForMint(baseMint), "BASE"),
             !.sizeUnit = sizeUnit, !.priceUnit = priceUnit,
             !.pxQuotePerBase = pxQuotePerBase,
             !.usdPerQuote = usd.usdPerQuote, !.usdPerBase = usd.usdPerBase,
             !.midUSDperBase = usd.usdPerBase,
             !.haveUSD = usd.haveUSD, !.usingSolUsdLive = usd.usingSolUsdLive,
             !.solUsdPrice = usd.solUsdPrice,
             !.oracleMintA = usd.oracleMintA, !.oracleMintB = usd.oracleMintB,
             !.oracleSqrtPrice = usd.oracleSqrtPrice], cfg2)

\* legacy Orca probe main(), from client.getPool to the pool summary
LegacyMain(cfg, acc, orcAcc, t) ==
  IF ~acc.found THEN Fatal("pool_fetch", cfg)
  ELSE
    LET mintA == acc.mintA
        mintB == acc.mintB
        decA == MintDecimals(mintA)
        decB == MintDecimals(mintB)
        quoteMint == LegacyPickQuoteMint(mintA, mintB, cfg.quoteMint)
        quoteDecimals == IF quoteMint = mintA THEN decA ELSE decB
        u == usdPerQuoteFromOracle(orcAcc, quoteMint)
        consulted == quoteMint # USDC /\ cfg.oraclePool /\ orcAcc.found
        usdPerQuote ==
          IF quoteMint = USDC THEN One
          ELSE IF cfg.oraclePool /\ Truthy(u) /\ IsFinite(u) /\ Gt(u, Zero) THEN u
          ELSE One
        quoteIsA == quoteMint = mintA
        baseMint == IF quoteIsA THEN mintB ELSE mintA
        baseDecs == IF quoteIsA THEN decB ELSE decA
        pxBperA == calcPxBperA_fromSqrt(acc.sqrtPrice, decA, decB)
        pxQuotePerBase == IF quoteIsA THEN Div(One, pxBperA) ELSE pxBperA
        base == PoolFields(acc, t, "whirlpool", acc.feeRate, acc.protocolFeeRate,
                           decA, decB, SymbolForMint(mintA), SymbolForMint(mintB))
    IN  Ready(
          [base EXCEPT
             !.quoteMint = quoteMint, !.quoteDecimals = quoteDecimals,
             !.quoteSymbol = SymbolForMint(quoteMint),
             !.baseMint = baseMint, !.baseDecs = baseDecs,
             !.baseSymbol = SymbolForMint(baseMint),
             !.sizeUnit = "usd", !.priceUnit = "usd",
             !.pxQuotePerBase = pxQuotePerBase, !.usdPerQuote = usdPerQuote,
             !.usdPerBase = Mul(pxQuotePerBase, usdPerQuote),
             !.midUSDperBase = Mul(pxQuotePerBase, usdPerQuote),
             !.oracleMintA = IF consulted THEN orcAcc.mintA ELSE "",
             !.oracleMintB = IF consulted THEN orcAcc.mintB ELSE "",
             !.oracleSqrtPrice = IF consulted THEN orcAcc.sqrtPrice ELSE 0,
             !.haveUSD = TRUE], cfg)

\* raydium_probe main(), from fetchPoolById to the base/quote identification
RaydiumMain(cfg, acc, t) ==
  IF ~acc.found THEN Fatal("pool_not_found", cfg)
  ELSE IF ~acc.clmm THEN Fatal("not_clmm", cfg)
  ELSE
    LET feePpm_one_leg == normalizeFeePpm(acc.feeRate)
        protoFeePpm == normalizeFeePpm(acc.protocolFeeRate)
        mintA == acc.mintA
        mintB == acc.mintB
        decA == GetMintDecimalsViaRPC(mintA)
        decB == GetMintDecimalsViaRPC(mintB)
        isUsdA == mintA = USDC
        isUsdB == mintB = USDC
        quoteMint == IF isUsdB THEN mintB ELSE IF isUsdA THEN mintA ELSE mintB
        quoteDecimals == IF quoteMint = mintA THEN decA ELSE decB
        baseMint == IF isUsdB THEN mintA ELSE mintB
        baseDecs == IF isUsdB THEN decA ELSE decB
        mid == midUsdPerBase_fromSqrt(acc.sqrtPrice, decA, decB, mintA, mintB)
        base == PoolFields(acc, t, "clmm", feePpm_one_leg, protoFeePpm,
                           decA, decB, SymbolForMint(mintA), SymbolForMint(mintB))
    IN  Ready(
          [base EXCEPT
             !.quoteMint = quoteMint, !.quoteDecimals = quoteDecimals,
             !.quoteSymbol = SymbolForMint(quoteMint),
             !.baseMint = baseMint, !.baseDecs = baseDecs,
             !.baseSymbol = SymbolForMint(baseMint),
             !.sizeUnit = "usd", !.priceUnit = "usd",
             !.midUSDperBase = mid, !.pxQuotePerBase = mid,
             !.usdPerQuote = One, !.usdPerBase = mid, !.haveUSD = TRUE], cfg)

\* alternate Raydium probe main(); quoteMint, quoteDecimals and baseDecs hold
\* the usdMint, usdDec and outDec that its quoteBuy and quoteSell compute
AltMain(cfg, acc, t) ==
  IF ~acc.found THEN Fatal("pool_not_found", cfg)
  ELSE IF ~acc.clmm THEN Fatal("not_clmm", cfg)
  ELSE
    LET feePpm_one_leg == normalizeFeePpm(acc.feeRate)
        protoFeePpm == normalizeFeePpm(acc.protocolFeeRate)
        mintA == acc.mintA
        mintB == acc.mintB
        decA == GetMintDecimalsViaRPC(mintA)
        decB == GetMintDecimalsViaRPC(mintB)
        isUsdA == mintA = USDC
        isUsdB == mintB = USDC
        usdMint == IF isUsdB THEN mintB ELSE IF isUsdA THEN mintA ELSE mintB
        usdDec == IF usdMint = mintA THEN decA ELSE decB
        outDec == IF usdMint = mintA THEN decB ELSE decA
        mid == midUsdPerA_fromSqrt(acc.sqrtPrice, decA, decB, mintA, mintB)
        base == PoolFields(acc, t, "clmm", feePpm_one_leg, protoFeePpm,
                           decA, decB, "", "")
    IN  Ready(
          [base EXCEPT
             !.quoteMint = usdMint, !.quoteDecimals = usdDec,
             !.baseDecs = outDec,
             !.sizeUnit = "usd", !.priceUnit = "usd",
             !.midUSDperBase = mid, !.pxQuotePerBase = mid,
             !.usdPerQuote = One, !.usdPerBase = mid, !.haveUSD = TRUE], cfg)

(***************************************************************************)
(* The CSV appender.                                                       *)
(***************************************************************************)
\* a line of the file: row.join(",") + "\n", kept as what it is
Line(kind, fields) == [kind |-> kind, n |-> Len(fields)]

\* mkCsvAppender(outPath, header): opens for append, which creates the file,
\* and writes the header on a fresh file when one is passed
mkCsvAppender(lines, existed, header) ==
  IF ~existed /\ Len(header) > 0
    THEN Append(lines, Line("header", header))
    ELSE lines

\* the CSV set-up of main(): the appender, and the header row the probe writes
OpenCsv(p, lines, existed) ==
  IF p = "raydium_alt"
    THEN mkCsvAppender(lines, existed, csvHeader(p))
    ELSE Append(mkCsvAppender(lines, existed, << >>),
                Line("header", csvHeader(p)))

(***************************************************************************)
(* The quote legs.                                                         *)
(***************************************************************************)
\* DecimalUtil.toBN(new Decimal(x), dec): x * 10^dec truncated; it rejects a
\* negative amount, and a NaN or infinite one cannot become a BN
OrcaToBN(x, dec) ==
  IF ~IsFinite(x) \/ Lt(x, Zero) THEN [throws |-> TRUE, bn |-> 0]
  ELSE [throws |-> FALSE, bn |-> Floor(Mul(x, I(Pow10(dec))))]

\* the Raydium probes' toBN: x * 10^dec, toFixed(0)
RaydiumToBN(x, dec) ==
  IF ~IsFinite(x) THEN [throws |-> TRUE, bn |-> 0]
  ELSE [throws |-> FALSE, bn |-> MathRound(Mul(x, I(Pow10(dec))))[1]]

ToBN(p, x, dec) ==
  IF p \in {"orca_probe", "legacy_orca"} THEN OrcaToBN(x, dec) ELSE RaydiumToBN(x, dec)

\* DecimalUtil.fromBN(bn, dec).toNumber() and bnToNumber(bn, dec)
FromBN(bn, dec) == Num(bn, Pow10(dec))

\* orca_probe: quoteIn and needQuoteOut for one size
OrcaQuoteAmounts(st, cfg, size) ==
  IF cfg.usdMode /\ st.quoteMint = SOL_MINT /\ st.usingSolUsdLive
       /\ Truthy(st.solUsdPrice) /\ Gt(st.solUsdPrice, Zero)
    THEN [throws |-> FALSE, quoteIn |-> Div(size, st.solUsdPrice),
          needQuoteOut |-> Div(size, st.solUsdPrice)]
  ELSE IF cfg.usdMode THEN
    IF ~st.haveUSD THEN [throws |-> TRUE, quoteIn |-> NaN, needQuoteOut |-> NaN]
    ELSE [throws |-> FALSE,
          quoteIn |-> Div(Div(size, st.usdPerQuote), st.pxQuotePerBase),
          needQuoteOut |-> Div(Div(size, st.usdPerQuote), st.pxQuotePerBase)]
  ELSE IF st.sizeUnit = "usd" THEN
    IF ~st.haveUSD THEN [throws |-> TRUE, quoteIn |-> NaN, needQuoteOut |-> NaN]
    ELSE [throws |-> FALSE, quoteIn |-> Div(size, st.usdPerQuote),
          needQuoteOut |-> Div(size, st.usdPerQuote)]
  ELSE [throws |-> FALSE, quoteIn |-> size, needQuoteOut |-> size]

\* legacy Orca probe: quoteIn and needQuoteOut
LegacyQuoteAmounts(st, cfg, usd) ==
  [throws |-> FALSE, quoteIn |-> Div(usd, st.usdPerQuote),
   needQuoteOut |-> Div(usd, st.usdPerQuote)]

\* the Raydium probes: quoteBuy and quoteSell are both handed usdNotional
RaydiumQuoteAmounts(st, cfg, usd) ==
  [throws |-> FALSE, quoteIn |-> usd, needQuoteOut |-> usd]

\* quote amounts whose SELL side is sized net of the one-leg fee
QuoteAmounts_SellNetOfFee(p, st, cfg, size) ==
  LET q == CASE p = "orca_probe" -> OrcaQuoteAmounts(st, cfg, size)
             [] p = "legacy_orca" -> LegacyQuoteAmounts(st, cfg, size)
             [] OTHER -> RaydiumQuoteAmounts(st, cfg, size)
  IN  [q EXCEPT !.needQuoteOut =
         Mul(q.quoteIn, Sub(One, Div(st.feePpm, I(1000000))))]

QuoteAmounts(p, st, cfg, size) ==
  CASE p = "orca_probe" -> OrcaQuoteAmounts(st, cfg, size)
    [] p = "legacy_orca" -> LegacyQuoteAmounts(st, cfg, size)
    [] OTHER -> RaydiumQuoteAmounts(st, cfg, size)

\* does the probe throw on this base amount of a leg?  The Orca probes
\* test !(amount > 0); the Raydium probes test nothing
LegRejects(p, amount) ==
  IF p \in {"orca_probe", "legacy_orca"} THEN ~Gt(amount, Zero) ELSE FALSE

\* what the curve-quote provider may answer: an exception, or a base amount
\* and a fee, in raw units
ProviderAnswers(p, dec) ==
  { [throws |-> TRUE, amount |-> 0, hasFee |-> FALSE, fee |-> 0] }
  \cup { [throws |-> FALSE, amount |-> k * Pow10(dec), hasFee |-> TRUE,
          fee |-> Pow10(dec)] : k \in 0..2 }
  \cup ( IF p \in {"raydium_probe", "raydium_alt"}
           THEN { [throws |-> FALSE, amount |-> Pow10(dec), hasFee |-> FALSE,
                   fee |-> 0] }
           ELSE { } )

\* the fee of a leg: the provider's, or the Raydium probes' estimate
LegFee(p, st, ans, dec, notional) ==
  IF ans.hasFee \/ p \in {"orca_probe", "legacy_orca"}
    THEN FromBN(ans.fee, dec)
    ELSE Div(Mul(notional, st.feePpm), I(1000000))

\* the impact without the clamp
ImpactBps_NoClamp(rt_bps, feeBps_roundtrip) == Sub(rt_bps, feeBps_roundtrip)

\* Math.max(rt_bps - feeBps_roundtrip, 0)
ImpactBps(rt_bps, feeBps_roundtrip) == MathMax(Sub(rt_bps, feeBps_roundtrip), Zero)

\* orca_probe: prices in the requested priceUnit and the bps of one size
OrcaMetrics(st, size, b, sellInBase, sellFeeBase) ==
  LET mid_quote == st.pxQuotePerBase
      buy_quote == Div(b.quoteIn, b.buyOutBase)
      sell_quote == Div(b.needQuoteOut, sellInBase)
      mid_usd == IF st.haveUSD THEN st.usdPerBase ELSE NaN
      buy_usd == IF st.haveUSD
                   THEN Div(IF st.sizeUnit = "usd" THEN size
                            ELSE Mul(b.quoteIn, st.usdPerQuote), b.buyOutBase)
                   ELSE NaN
      sell_usd == IF st.haveUSD
                    THEN Div(IF st.sizeUnit = "usd" THEN size
                             ELSE Mul(b.needQuoteOut, st.usdPerQuote), sellInBase)
                    ELSE NaN
      mid == IF st.priceUnit = "quote" THEN mid_quote ELSE mid_usd
      buyPx == IF st.priceUnit = "quote" THEN buy_quote ELSE buy_usd
      sellPx == IF st.priceUnit = "quote" THEN sell_quote ELSE sell_usd
      rt_bps == toBps(Div(Sub(buyPx, sellPx), mid))
  IN  [mid_quote |-> mid_quote, mid_usd |-> mid_usd,
       buy_quote |-> buy_quote, sell_quote |-> sell_quote,
       buy_usd |-> buy_usd, sell_usd |-> sell_usd,
       buyPx |-> buyPx, sellPx |-> sellPx, rt_bps |-> rt_bps,
       impact_bps |-> ImpactBps(rt_bps, st.feeBps_roundtrip),
       buyOutBase |-> b.buyOutBase, sellInBase |-> sellInBase,
       buyFeeQuote |-> b.buyFeeQuote, sellFeeBase |-> sellFeeBase,
       sellFeeUSD |-> NaN]

\* the legacy Orca probe and the Raydium probes: executed prices are the
\* notional over the base amount, bps are taken against the USD mid
UsdMetrics(st, usd, b, sellInBase, sellFeeBase) ==
  LET buyPx == Div(usd, b.buyOutBase)
      sellPx == Div(usd, sellInBase)
      rt_bps == toBps(Div(Sub(buyPx, sellPx), st.midUSDperBase))
  IN  [mid_quote |-> st.pxQuotePerBase, mid_usd |-> st.midUSDperBase,
       buy_quote |-> NaN, sell_quote |-> NaN,
       buy_usd |-> buyPx, sell_usd |-> sellPx,
       buyPx |-> buyPx, sellPx |-> sellPx, rt_bps |-> rt_bps,
       impact_bps |-> ImpactBps(rt_bps, st.feeBps_roundtrip),
       buyOutBase |-> b.buyOutBase, sellInBase |-> sellInBase,
       buyFeeQuote |-> b.buyFeeQuote, sellFeeBase |-> sellFeeBase,
       sellFeeUSD |-> Mul(sellFeeBase, sellPx)]

Metrics(p, st, size, b, sellInBase, sellFeeBase) ==
  IF p = "orca_probe" THEN OrcaMetrics(st, size, b, sellInBase, sellFeeBase)
  ELSE UsdMetrics(st, size, b, sellInBase, sellFeeBase)

(***************************************************************************)
(* State.                                                                  *)
(***************************************************************************)
VARIABLES
  probe,   \* which program this run executes
  cfg,     \* argv of the run
  sizes,   \* the module-level sizes = parseSizes(argv.sizes, argv.range)
  pc,      \* "start", "buy", "sell", "done", or "fatal"
  why,     \* the reason of a fatal end
  i,       \* position of the loop in sizes, from 1
  st,      \* the pool snapshot and unit configuration main() computed
  loc,     \* the locals an iteration carries from its BUY leg to its SELL leg
  out,     \* the rows this run handed to csv.write, header excluded
  calls,   \* the quote calls this run issued, in order
  file,    \* the lines of the file at the CSV path
  exists,  \* whether that file exists
  now,     \* the clock: one tick per network call, sleepMs per sleep
  runs,    \* the number of runs started on the CSV path
  evals    \* the calls made to the exported price helpers: arguments and result

vars == << probe, cfg, sizes, pc, why, i, st, loc, out, calls, file, exists,
           now, runs, evals >>

NoLocals == [quoteIn |-> NaN, needQuoteOut |-> NaN, buyOutBase |-> NaN,
             buyFeeQuote |-> NaN]

\* a process started as probe p with options a, --sizes sz and --range rng
StartProcess(p, a, sz, rng) ==
  /\ probe = p
  /\ cfg = a
  /\ sizes = parseSizes(sz, RangeOf(p, rng))
  /\ pc = "start"
  /\ why = ""
  /\ i = 1
  /\ st = NoSnapshot
  /\ loc = NoLocals
  /\ out = << >>
  /\ calls = << >>

Init ==
  /\ \E p \in Probes : \E a \in Argv(p) : \E sz \in SizesArgs : \E rng \in RangeArgs :
       StartProcess(p, a, sz, rng)
  /\ file = << >>
  /\ exists = FALSE
  /\ now = 0
  /\ runs = 1
  /\ evals = << >>

(***************************************************************************)
(* main() before the loop.                                                 *)
(***************************************************************************)
\* the end of the set-up: a fatal error ends the process; otherwise the CSV
\* is opened, its header written and the loop entered
EnterLoop(r) ==
  /\ cfg' = r.cfg
  /\ now' = now + 1
  /\ UNCHANGED << probe, sizes, i, loc, out, calls, runs, evals >>
  /\ IF r.fatal
       THEN /\ pc' = "fatal"
            /\ why' = r.why
            /\ UNCHANGED << st, file, exists >>
       ELSE /\ st' = r.st
            /\ why' = ""
            /\ file' = IF r.cfg.csv THEN OpenCsv(probe, file, exists) ELSE file
            /\ exists' = (exists \/ r.cfg.csv)
            /\ pc' = IF Len(sizes) = 0 THEN "done" ELSE "buy"

OrcaSetup ==
  /\ probe = "orca_probe"
  /\ pc = "start"
  /\ \E acc \in PoolAccounts(OrcaFeeRates) \cup {NoPool} :
       \E solAcc \in SolUsdAccounts :
         \E orcAcc \in OracleAccounts \cup {NoPool} :
           EnterLoop(OrcaMain(cfg, acc, solAcc, orcAcc, now))

LegacySetup ==
  /\ probe = "legacy_orca"
  /\ pc = "start"
  /\ \E acc \in PoolAccounts(OrcaFeeRates) \cup {NoPool} :
       \E orcAcc \in OracleAccounts \cup {NoPool} :
         EnterLoop(LegacyMain(cfg, acc, orcAcc, now))

RaydiumSetup ==
  /\ probe = "raydium_probe"
  /\ pc = "start"
  /\ \E acc \in PoolAccounts(RaydiumFeeRates) \cup {NoPool, NonClmmPool} :
       EnterLoop(RaydiumMain(cfg, acc, now))

AltSetup ==
  /\ probe = "raydium_alt"
  /\ pc = "start"
  /\ \E acc \in PoolAccounts(RaydiumFeeRates) \cup {NoPool, NonClmmPool} :
       EnterLoop(AltMain(cfg, acc, now))

(***************************************************************************)
(* The size loop.                                                          *)
(***************************************************************************)
Row(kind, k, cells) == [kind |-> kind, k |-> k, cells |-> cells]

Call(leg, k, amount, bn, ans) ==
  [leg |-> leg, k |-> k, amount |-> amount, bn |-> bn, mint |-> st.quoteMint,
   snap |-> st.snap, at |-> now, ans |-> ans]

\* the step to the next size, or out of the loop and csv.close
NextSize ==
  /\ i' = i + 1
  /\ pc' = IF i >= Len(sizes) THEN "done" ELSE "buy"
  /\ loc' = NoLocals

\* a catch block that writes the failure row and leaves the loop
Catch_Aborts(calls2) ==
  /\ calls' = calls2
  /\ out' = IF cfg.csv
              THEN Append(out, Row("fail", i, FailureRow(probe, st, now, sizes[i])))
              ELSE out
  /\ file' = IF cfg.csv
               THEN Append(file, Line("row", FailureRow(probe, st, now, sizes[i])))
               ELSE file
  /\ now' = now + 1
  /\ i' = i + 1
  /\ pc' = "done"
  /\ loc' = NoLocals

\* a catch block that writes nothing and tries the same size again
Catch_Retries(calls2) ==
  /\ calls' = calls2
  /\ now' = now + 1
  /\ pc' = "buy"
  /\ loc' = NoLocals
  /\ UNCHANGED << i, out, file >>

\* the catch block: log, write the failure row, go on with the next size
Catch(calls2) ==
  /\ calls' = calls2
  /\ out' = IF cfg.csv
              THEN Append(out, Row("fail", i, FailureRow(probe, st, now, sizes[i])))
              ELSE out
  /\ file' = IF cfg.csv
               THEN Append(file, Line("row", FailureRow(probe, st, now, sizes[i])))
               ELSE file
  /\ now' = now + 1
  /\ NextSize

\* the try block up to the answer of the BUY quote
BuyLeg ==
  /\ pc = "buy"
  /\ UNCHANGED << probe, cfg, sizes, why, st, exists, runs, evals >>
  /\ LET size == sizes[i]
         qa == QuoteAmounts(probe, st, cfg, size)
         bn == ToBN(probe, qa.quoteIn, st.quoteDecimals)
     IN  IF qa.throws \/ bn.throws THEN Catch(calls)
         ELSE \E ans \in ProviderAnswers(probe, st.baseDecs) :
           LET buyOutBase == FromBN(ans.amount, st.baseDecs)
               calls2 == Append(calls, Call("BUY", i, qa.quoteIn, bn.bn, ans))
           IN  IF ans.throws \/ LegRejects(probe, buyOutBase) THEN Catch(calls2)
               ELSE /\ calls' = calls2
                    /\ loc' = [quoteIn |-> qa.quoteIn,
                               needQuoteOut |-> qa.needQuoteOut,
                               buyOutBase |-> buyOutBase,
                               buyFeeQuote |-> LegFee(probe, st, ans,
                                                 st.quoteDecimals, size)]
                    /\ pc' = "sell"
                    /\ now' = now + 1
                    /\ UNCHANGED << i, out, file >>

\* the rest of the try block: the SELL quote, the metrics, the row, the sleep
SellLeg ==
  /\ pc = "sell"
  /\ UNCHANGED << probe, cfg, sizes, why, st, exists, runs, evals >>
  /\ LET size == sizes[i]
         bn == ToBN(probe, loc.needQuoteOut, st.quoteDecimals)
     IN  IF bn.throws THEN Catch(calls)
         ELSE \E ans \in ProviderAnswers(probe, st.baseDecs) :
           LET sellInBase == FromBN(ans.amount, st.baseDecs)
               calls2 == Append(calls, Call("SELL", i, loc.needQuoteOut, bn.bn, ans))
               sellFeeBase == LegFee(probe, st, ans, st.baseDecs, sellInBase)
               m == Metrics(probe, st, size, loc, sellInBase, sellFeeBase)
               row == SuccessRow(probe, st, now + 1, size, m)
           IN  IF ans.throws \/ LegRejects(probe, sellInBase) THEN Catch(calls2)
               ELSE /\ calls' = calls2
                    /\ out' = IF cfg.csv THEN Append(out, Row("ok", i, row)) ELSE out
                    /\ file' = IF cfg.csv THEN Append(file, Line("row", row)) ELSE file
                    /\ now' = now + 1 + cfg.sleepMs
                    /\ NextSize

Next == OrcaSetup \/ LegacySetup \/ RaydiumSetup \/ AltSetup \/ BuyLeg \/ SellLeg

Spec == Init /\ [][Next]_vars

(***************************************************************************)
(* Several runs that append to the same CSV path, each with the default    *)
(* options: the next process starts when the one before it has ended.      *)
(***************************************************************************)
DefaultArgv ==
  [usdMode |-> FALSE, sizeUnit |-> "", priceUnit |-> "", quoteMint |-> "",
   oraclePool |-> FALSE, usdMint |-> USDC, sleepMs |-> 0, csv |-> TRUE]

InitRuns ==
  /\ \E p \in Probes : \E sz \in SizesArgs : StartProcess(p, DefaultArgv, sz, NoRange)
  /\ file = << >>
  /\ exists = FALSE
  /\ now = 0
  /\ runs = 1
  /\ evals = << >>

\* the same probe is started again on the same --csv path
NewRun ==
  /\ pc \in {"done", "fatal"}
  /\ runs < MaxRuns
  /\ \E sz \in SizesArgs :
       /\ probe' = probe
       /\ cfg' = DefaultArgv
       /\ sizes' = parseSizes(sz, RangeOf(probe, NoRange))
  /\ pc' = "start"
  /\ why' = ""
  /\ i' = 1
  /\ st' = NoSnapshot
  /\ loc' = NoLocals
  /\ out' = << >>
  /\ calls' = << >>
  /\ runs' = runs + 1
  /\ UNCHANGED << file, exists, now, evals >>

NextRuns == Next \/ NewRun

SpecRuns == InitRuns /\ [][NextRuns]_vars

(***************************************************************************)
(* A run with an inter-iteration delay: the two Orca probes take           *)
(* --sleepMs, the Raydium probes have no such option.                      *)
(***************************************************************************)
SleepArgs(p) == IF p \in {"orca_probe", "legacy_orca"} THEN {0, SleepMs} ELSE {0}

InitSleep ==
  /\ \E p \in Probes : \E ms \in SleepArgs(p) : \E sz \in SizesArgs :
       StartProcess(p, [DefaultArgv EXCEPT !.sleepMs = ms], sz, NoRange)
  /\ file = << >>
  /\ exists = FALSE
  /\ now = 0
  /\ runs = 1
  /\ evals = << >>

SpecSleep == InitSleep /\ [][Next]_vars

(***************************************************************************)
(* A run whose sizes come from --range: the range may start at zero or     *)
(* below it.                                                               *)
(***************************************************************************)
LoopRangeArgs ==
  { NoRange, Range(One, I(2), One), Range(Zero, I(2), I(2)),
    Range(Neg(One), One, I(2)) }

InitRange ==
  /\ \E p \in Probes : \E sz \in SizesArgs : \E rng \in LoopRangeArgs :
       StartProcess(p, DefaultArgv, sz, rng)
  /\ file = << >>
  /\ exists = FALSE
  /\ now = 0
  /\ runs = 1
  /\ evals = << >>

SpecRange == InitRange /\ [][Next]_vars

(***************************************************************************)
(* The price helpers on their own: a caller evaluates one of them at up to *)
(* MaxEvals square-root prices for a fixed pair of decimals.               *)
(***************************************************************************)
\* Q64.64 square-root prices from 0 to 4.0, every fixed-point value
SqrtGrid == 0..(4 * Q64)

\* (decA, decB) of the pools: SOL/USDC, USDC/SOL, SOL/X, BTC/X
DecimalPairs == { <<9, 6>>, <<6, 9>>, <<9, 9>>, <<8, 9>> }

InitEvals ==
  /\ probe = "utils"
  /\ cfg = DefaultArgv
  /\ sizes = << >>
  /\ pc = "idle"
  /\ why = ""
  /\ i = 1
  /\ st = NoSnapshot
  /\ loc = NoLocals
  /\ out = << >>
  /\ calls = << >>
  /\ file = << >>
  /\ exists = FALSE
  /\ now = 0
  /\ runs = 1
  /\ evals = << >>

\* one more call of the price helper named fn, for the decimals of the calls
\* before it
EvalAt(fn) ==
  /\ probe = "utils"
  /\ Len(evals) < MaxEvals
  /\ evals # << >> => evals[1].fn = fn
  /\ \E s \in SqrtGrid :
       \E decs \in IF evals = << >> THEN DecimalPairs
                   ELSE { << evals[1].args[2], evals[1].args[3] >> } :
         evals' = Append(evals, [fn |-> fn, args |-> << s, decs[1], decs[2] >>,
                                 result |->
                                   IF fn = "midBPerA_fromSqrtX64"
                                     THEN midBPerA_fromSqrtX64(s, decs[1], decs[2])
                                     ELSE calcPxBperA_fromSqrt(s, decs[1], decs[2])])
  /\ UNCHANGED << probe, cfg, sizes, pc, why, i, st, loc, out, calls, file, exists, now, runs >>

\* a call of utils.ts midBPerA_fromSqrtX64
EvalMidBPerA == EvalAt("midBPerA_fromSqrtX64")

\* a call of orca_probe's calcPxBperA_fromSqrt
EvalCalcPxBperA == EvalAt("calcPxBperA_fromSqrt")

\* what a pool's feeRate may be after Number(raw ?? 0): zero (or missing),
\* not a number, infinite, a fraction, a ppm count, whole or not
RawFeeRates ==
  { Zero, NaN, Infinity, Num(1, 2500), Num(1, 4), Num(1, 3000000),
    Num(999999, 1000000), Num(5, 10000000), One, Num(3, 2), Num(5, 4), I(400), I(2500) }

\* a call of the Raydium probes' normalizeFeePpm
EvalNormalizeFeePpm ==
  /\ probe = "utils"
  /\ Len(evals) < MaxEvals
  /\ evals # << >> => evals[1].fn = "normalizeFeePpm"
  /\ \E raw \in RawFeeRates :
       evals' = Append(evals, [fn |-> "normalizeFeePpm", args |-> << raw >>,
                               result |-> normalizeFeePpm(raw)])
  /\ UNCHANGED << probe, cfg, sizes, pc, why, i, st, loc, out, calls, file, exists, now, runs >>

NextEvals == EvalMidBPerA \/ EvalCalcPxBperA \/ EvalNormalizeFeePpm

SpecEvals == InitEvals /\ [][NextEvals]_vars

(***************************************************************************)
(* The command line at large: quote overrides, size lists with entries     *)
(* that are not positive numbers, ranges that do not parse. The process    *)
(* is followed from the module-level parsing of its arguments to the end   *)
(* of main()'s set-up.                                                     *)
(***************************************************************************)
\* --quoteMint: absent, a pool token, or a token foreign to most pools
QuoteArgs == {"", USDC, SOL_MINT, MintY}

\* the two Orca probes declare --quoteMint; the Raydium probes do not
QuoteArgsOf(p) == IF p \in {"orca_probe", "legacy_orca"} THEN QuoteArgs ELSE {""}

\* what one entry of --sizes may be after Number()
RawSizeValues == {Neg(One), Zero, One, I(2), NaN}

RawSizesArgs == SeqsUpTo(RawSizeValues, MaxSizes)

\* --range: absent, without a colon, well formed, and the ways to be malformed
RawRangeArgs ==
  { NoRange, EmptyRange, Range(One, I(2), One), Range(Zero, I(2), I(2)),
    Range(One, I(2), Num(1, 2)), Range(I(2), One, One), Range(One, I(2), Zero),
    Range(One, I(2), Neg(One)), Range(NaN, I(2), One), Range(One, Infinity, One) }

\* the first size list the run is given when --sizes is not the subject
OneSize == << One >>

\* argv with the raw --sizes and --range kept beside the options
WithSizes(a, sz, rng) == a @@ [sizes |-> sz, range |-> rng]

ArgvAtLarge(p) ==
  { WithSizes([a EXCEPT !.quoteMint = q], OneSize, NoRange) :
      a \in Argv(p), q \in QuoteArgsOf(p) }
  \cup { WithSizes(DefaultArgv, sz, rng) : sz \in RawSizesArgs, rng \in RawRangeArgs }

InitArgs ==
  /\ probe \in Probes
  /\ cfg \in ArgvAtLarge(probe)
  /\ sizes = << >>
  /\ pc = "argv"
  /\ why = ""
  /\ i = 1
  /\ st = NoSnapshot
  /\ loc = NoLocals
  /\ out = << >>
  /\ calls = << >>
  /\ file = << >>
  /\ exists = FALSE
  /\ now = 0
  /\ runs = 1
  /\ evals = << >>

\* the module-level statement const sizes = parseSizes()
ParseSizes ==
  /\ pc = "argv"
  /\ sizes' = parseSizes(cfg.sizes, RangeOf(probe, cfg.range))
  /\ pc' = "start"
  /\ UNCHANGED << probe, cfg, why, i, st, loc, out, calls, file, exists, now, runs, evals >>

NextArgs == ParseSizes \/ OrcaSetup \/ LegacySetup \/ RaydiumSetup \/ AltSetup

SpecArgs == InitArgs /\ [][NextArgs]_vars

(***************************************************************************)
(* Properties.                                                             *)
(***************************************************************************)
\* the header columns a source expression may be written under
ColumnsFor(src) ==
  CASE src = "ts" -> {"ts_utc"}
    [] src = "dex" -> {"dex"}
    [] src = "pool" -> {"pool"}
    [] src = "programId" -> {"program_id"}
    [] src = "tickSpacing" -> {"tick_spacing"}
    [] src = "feePpm" -> {"fee_ppm"}
    [] src = "feeBps_one_leg" -> {"fee_bps"}
    [] src = "protoFeePpm" -> {"protocol_fee_ppm"}
    [] src = "liquidity" -> {"liquidity_u128"}
    [] src = "sqrtPriceX64" -> {"sqrt_price_x64"}
    [] src = "tickCurrent" -> {"tick_current"}
    [] src \in {"mintA", "decA", "symbolA", "mintB", "decB", "symbolB"} -> {src}
    [] src = "baseMint" -> {"base_mint"}
    [] src = "baseDecs" -> {"base_decimals"}
    [] src = "baseSymbol" -> {"base_symbol"}
    [] src = "quoteMint" -> {"quote_mint"}
    [] src = "quoteDecimals" -> {"quote_decimals"}
    [] src = "quoteSymbol" -> {"quote_symbol"}
    [] src = "sizeUnit" -> {"size_unit"}
    [] src = "priceUnit" -> {"price_unit"}
    [] src = "mid_quote" -> {"mid_quote_per_base"}
    [] src \in {"mid_usd", "midUSDperBase"} -> {"mid_usd_per_base"}
    [] src = "midUSDperA" -> {"mid_usd_per_A"}
    [] src = "buy_quote" -> {"buy_px_quote_per_base"}
    [] src = "sell_quote" -> {"sell_px_quote_per_base"}
    [] src \in {"buy_usd", "buyExecPx"} -> {"buy_px_usd_per_base", "buy_exec_px"}
    [] src \in {"sell_usd", "sellExecPx"} -> {"sell_px_usd_per_base", "sell_exec_px"}
    [] src \in {"usdPerQuote", "1"} -> {"usd_per_quote"}
    [] src \in {"size", "usd"} -> {"size_value", "usd_notional"}
    [] src = "rt_bps" -> {"roundtrip_bps"}
    [] src = "feeBps_roundtrip" -> {"fee_bps_total"}
    [] src = "impact_bps" -> {"impact_bps_total"}
    [] src = "buyOutBase" -> {"buy_out_base", "buy_qty_out_A"}
    [] src = "sellInBase" -> {"sell_in_base", "sell_qty_in_A"}
    [] src = "buyFeeQuote" -> {"buy_fee_quote"}
    [] src = "sellFeeBase" -> {"sell_fee_base"}
    [] src = "buyFeeUSD" -> {"buy_fee_usd"}
    [] src = "sellFeeUSD" -> {"sell_fee_usd"}
    [] src = "feeA" -> {"sell_fee_A"}
    [] OTHER -> { }

\* the columns a probe fills with a measurement of the size
MetricColumns ==
  {"mid_quote_per_base", "mid_usd_per_base", "mid_usd_per_A",
   "buy_px_quote_per_base", "sell_px_quote_per_base",
   "buy_px_usd_per_base", "sell_px_usd_per_base", "buy_exec_px", "sell_exec_px",
   "usd_per_quote", "roundtrip_bps", "impact_bps_total",
   "buy_out_base", "sell_in_base", "buy_qty_out_A", "sell_qty_in_A",
   "buy_fee_quote", "sell_fee_base", "buy_fee_usd", "sell_fee_usd", "sell_fee_A"}

\* a cell sits under a column that is its own
CellFits(cell, column) ==
  IF cell.src = "NaN" THEN column \in MetricColumns
  ELSE column \in ColumnsFor(cell.src)

RowFitsHeader(cells, header) ==
  /\ Len(cells) = Len(header)
  /\ \A j \in 1..Len(header) : CellFits(cells[j], header[j])

\* the position of a column in a header (0 when it has no such column)
ColumnIndex(header, name) ==
  IF \E j \in 1..Len(header) : header[j] = name
    THEN CHOOSE j \in 1..Len(header) : header[j] = name
    ELSE 0

\* the cell a row of this run holds under a column
CellUnder(row, name) == row.cells[ColumnIndex(csvHeader(probe), name)]

OkRows == { k \in 1..Len(out) : out[k].kind = "ok" }
FailRows == { k \in 1..Len(out) : out[k].kind = "fail" }

\* C1: in each of the four probes every row written for a size, success or
\* failure, has exactly as many fields as the probe's csvHeader() and each
\* field sits under its own header column.
C1_RowsFitHeader ==
  \A k \in 1..Len(out) : RowFitsHeader(out[k].cells, csvHeader(probe))

\* the probes with the unified schema or the alternate Raydium schema
UsdProbes == {"legacy_orca", "raydium_probe", "raydium_alt"}

\* the first metric column: mid_usd_per_base, mid_usd_per_A in the alternate probe
MidColumn(p) == IF p = "raydium_alt" THEN "mid_usd_per_A" ELSE "mid_usd_per_base"

\* a failure row and a success row of the run agree on every column before
\* the first metric column, the timestamp aside
SameIdentity(f, s) ==
  \A j \in 2..(ColumnIndex(csvHeader(probe), MidColumn(probe)) - 1) :
    out[f].cells[j].val = out[s].cells[j].val

\* C2 as the spec states it: the row of a failed size has not-a-number in
\* every column from mid_usd_per_base through sell_fee_base, and every column
\* before them holds what it holds in a success row of the same run.
C2_FailureRowAllNaN ==
  probe \in UsdProbes =>
    \A f \in FailRows :
      LET h == csvHeader(probe)
      IN  /\ Len(out[f].cells) = Len(h)
          /\ \A j \in ColumnIndex(h, MidColumn(probe))..Len(h) :
               IsNaN(out[f].cells[j].val)
          /\ \A s \in OkRows : SameIdentity(f, s)

\* C2 (amended): in the legacy Orca probe, raydium_probe and the alternate
\* Raydium probe the row of a failed size keeps the size in usd_notional and
\* the fee total in fee_bps_total (the alternate probe also keeps
\* mid_usd_per_A); every other column from the mid price to the last one is
\* not-a-number, and every column before them, the timestamp aside, holds
\* what it holds in a success row of the same run.
C2_FailureRowKeepsInputs ==
  probe \in UsdProbes =>
    \A f \in FailRows :
      LET h == csvHeader(probe)
      IN  /\ Len(out[f].cells) = Len(h)
          /\ \A j \in ColumnIndex(h, MidColumn(probe))..Len(h) :
               LET v == out[f].cells[j].val
               IN  CASE h[j] = "usd_notional" -> v = sizes[out[f].k]
                     [] h[j] = "fee_bps_total" -> v = st.feeBps_roundtrip
                     [] h[j] = "mid_usd_per_A" -> v = st.midUSDperBase
                     [] OTHER -> IsNaN(v)
          /\ \A s \in OkRows : SameIdentity(f, s)

\* a run of one of these probes wrote a failure row and a success row
C2_Witness ==
  /\ probe \in UsdProbes
  /\ FailRows # { }
  /\ OkRows # { }

\* the size a row was written for
SizeOfRow(row) ==
  row.cells[CHOOSE j \in 1..Len(row.cells) : row.cells[j].src \in {"size", "usd"}].val

\* C3: a run with CSV output emits exactly one row per requested size, in
\* list order, whatever sizes fail: inside the loop the rows written are those
\* of the sizes before the current one, and at the end of the run there is one
\* row for each size of the list.
C3_OneRowPerSize ==
  cfg.csv =>
    /\ pc \in {"buy", "sell"} => Len(out) = i - 1
    /\ pc = "done" => Len(out) = Len(sizes)
    /\ \A k \in 1..Len(out) : out[k].k = k /\ SizeOfRow(out[k]) = sizes[k]

\* a finished run whose first size failed and whose second size has its row
C3_Witness ==
  /\ pc = "done"
  /\ Len(sizes) = 2
  /\ Len(out) = 2
  /\ out[1].kind = "fail"
  /\ out[2].kind = "ok"

\* C4: for any sequence of runs appending to the same CSV path the header is
\* written only by the run that creates the file: the file holds exactly one
\* header line, and it is the first line.
C4_OneHeaderFirst ==
  exists =>
    /\ Len(file) >= 1
    /\ file[1].kind = "header"
    /\ \A j \in 2..Len(file) : file[j].kind = "row"

\* the run asks for a stable-currency conversion
StableRequested == st.sizeUnit = "usd" \/ st.priceUnit = "usd" \/ cfg.usdMode

\* main() found no conversion: the quote token is not the stable currency,
\* no oracle pool is supplied, and no rate was set
StableUnresolved ==
  /\ st.quoteMint \notin {USDC, cfg.usdMint}
  /\ ~cfg.oraclePool
  /\ ~st.haveUSD

\* C5: in orca_probe a stable-currency conversion that is requested (size
\* unit or price unit stable, or USD mode on) but cannot be resolved ends the
\* run before the size loop: the loop is never entered, no quote call is
\* issued and no row is written for a size.
C5_UnresolvedAbortsBeforeLoop ==
  (probe = "orca_probe" /\ pc \in {"buy", "sell", "done"}
     /\ StableRequested /\ StableUnresolved) =>
    /\ pc = "done"
    /\ Len(sizes) = 0
    /\ out = << >>
    /\ calls = << >>

\* the quote calls of size k that answered
AnswersFor(k) ==
  { c \in 1..Len(calls) : calls[c].k = k /\ ~calls[c].ans.throws }

\* C6: in every probe a BUY quote that returns a base amount that is not
\* strictly positive, or a SELL quote that requires one, makes the size fail:
\* its row is a failure row, and the probe does not go on to the SELL leg
\* after such a BUY answer.
C6_NonPositiveAmountFails ==
  /\ \A k \in 1..Len(out) :
       (\E c \in AnswersFor(k) : calls[c].ans.amount <= 0) => out[k].kind = "fail"
  /\ pc = "sell" => \A c \in AnswersFor(i) : calls[c].ans.amount > 0

\* C7: in both Orca probes, whatever the mode, the quote-token amount of the
\* BUY call of a size is the size over the stable-per-quote rate when the size
\* is in the stable currency, and the size itself when it is in the quote
\* token (stated for pools whose mid price is a positive finite number).
C7_QuoteAmountOfSize ==
  (probe \in {"orca_probe", "legacy_orca"}
     /\ IsFinite(st.pxQuotePerBase) /\ Gt(st.pxQuotePerBase, Zero)) =>
    \A c \in 1..Len(calls) :
      calls[c].leg = "BUY" =>
        calls[c].amount = IF st.sizeUnit = "usd"
                            THEN Div(sizes[calls[c].k], st.usdPerQuote)
                            ELSE sizes[calls[c].k]

\* C8: for every size and unit configuration the amount of the BUY exact-in
\* quote equals the amount of the SELL exact-out quote, as a number and in raw
\* units, both name the quote token, and both are made on the same pool
\* snapshot.
C8_LegsMatchNotional ==
  \A b \in 1..Len(calls) : \A s \in 1..Len(calls) :
    (calls[b].leg = "BUY" /\ calls[s].leg = "SELL" /\ calls[b].k = calls[s].k) =>
      /\ calls[b].amount = calls[s].amount
      /\ calls[b].bn = calls[s].bn
      /\ calls[b].mint = st.quoteMint
      /\ calls[s].mint = st.quoteMint
      /\ calls[b].snap = calls[s].snap

\* both legs of a size were quoted for a positive amount that is not the size
\* itself (a conversion took place)
C8_Witness ==
  \E s \in 1..Len(calls) :
    /\ calls[s].leg = "SELL"
    /\ calls[s].bn > 0
    /\ calls[s].amount # sizes[calls[s].k]

\* the larger of x and zero
ClampAtZero(x) == IF Lt(x, Zero) THEN Zero ELSE x

\* C9: on every success row impact_bps_total is max(roundtrip_bps -
\* fee_bps_total, 0), never negative, and fee_bps_total is 2 x fee_ppm / 100.
C9_ImpactClamped ==
  \A k \in OkRows :
    LET rt == CellUnder(out[k], "roundtrip_bps").val
        fee == CellUnder(out[k], "fee_bps_total").val
        impact == CellUnder(out[k], "impact_bps_total").val
        ppm == CellUnder(out[k], "fee_ppm").val
    IN  /\ impact = ClampAtZero(Sub(rt, fee))
        /\ ~Lt(impact, Zero)
        /\ fee = Div(Mul(I(2), ppm), I(100))

\* a success row whose round trip is below the fees, so that the clamp acts
C9_Witness ==
  \E k \in OkRows :
    /\ IsFinite(CellUnder(out[k], "roundtrip_bps").val)
    /\ Lt(CellUnder(out[k], "roundtrip_bps").val, CellUnder(out[k], "fee_bps_total").val)
    /\ CellUnder(out[k], "impact_bps_total").val = Zero

\* C10: a pool snapshot whose mid price is zero is fatal before the size
\* loop: the loop is not entered and no row, success or failure, is written.
C10_ZeroMidIsFatal ==
  (pc \in {"buy", "sell", "done"} /\ st.pxQuotePerBase = Zero) =>
    /\ pc = "done"
    /\ Len(sizes) = 0
    /\ out = << >>

\* main() has resolved the pool and the units: the run is in or past the loop
InLoop == pc \in {"buy", "sell", "done"}

\* C11: for every pool and every quote override the resolved quote token is
\* one of the pool's two tokens and the base token is the other one, and
\* quoteDecimals and baseDecimals are the decimals of those tokens (stated for
\* the three probes that name a base token).
C11_BaseIsComplementOfQuote ==
  (InLoop /\ probe # "raydium_alt") =>
    /\ {st.quoteMint, st.baseMint} = {st.mintA, st.mintB}
    /\ st.quoteDecimals = ChainDecimals(st.quoteMint)
    /\ st.baseDecs = ChainDecimals(st.baseMint)

\* the set-up step of main(): from the parsed command line into the loop
SetUpStep == pc = "start" /\ pc' \in {"buy", "done"}

\* the quote token the stated precedence selects
PreferredQuote(userQuote, mintA, mintB) ==
  IF userQuote # "" THEN userQuote
  ELSE IF USDC \in {mintA, mintB} THEN USDC
  ELSE IF mintA \in BTC_MINTS THEN mintA
  ELSE IF mintB \in BTC_MINTS THEN mintB
  ELSE mintB

\* C12: the quote token a run settles on is the user's override if one was
\* given, else the stable currency if it is either pool token, else the BTC
\* token if either pool token is one, else the pool's token B (for the three
\* probes that resolve a quote token).
C12_QuotePrecedence ==
  [][(SetUpStep /\ probe # "raydium_alt") =>
       st'.quoteMint = PreferredQuote(cfg.quoteMint, st'.mintA, st'.mintB)]_vars

\* the unit the stated defaults give
ExpectedUnit(given, usdMode, stableInPool) ==
  IF given # "" THEN given
  ELSE IF usdMode THEN "usd"
  ELSE IF stableInPool THEN "usd" ELSE "quote"

\* the stable currency is one of the pool's two tokens
StableInPool == USDC \in {st.mintA, st.mintB}

\* C13: in orca_probe a unit that was not given defaults to stable when the
\* stable currency is a pool token and to the quote token otherwise; with the
\* USD-mode flag a unit that was not given is stable whatever the pool holds;
\* a unit that was given is kept. This holds for the size unit and for the
\* price unit.
C13_UnitDefaults ==
  (probe = "orca_probe" /\ InLoop) =>
    /\ st.sizeUnit = ExpectedUnit(cfg.sizeUnit, cfg.usdMode, StableInPool)
    /\ st.priceUnit = ExpectedUnit(cfg.priceUnit, cfg.usdMode, StableInPool)

\* a USD-mode run on a pool without the stable currency: the size unit was not
\* given and became stable, the price unit was given as quote and was kept
C13_Witness ==
  /\ probe = "orca_probe" /\ InLoop
  /\ ~StableInPool
  /\ cfg.usdMode /\ cfg.sizeUnit = "" /\ cfg.priceUnit = "quote"
  /\ st.sizeUnit = "usd" /\ st.priceUnit = "quote"

\* main() read the pool --oraclePool names
OracleConsulted == st.oracleMintA # ""

\* the oracle pool pairs the stable currency with token m
OraclePairsStableWith(m) ==
  {st.oracleMintA, st.oracleMintB} = {USDC, m} /\ m # USDC

\* C14: a run that read an oracle pool pairing the stable currency with
\* neither its quote token nor its base token does not reach the size loop:
\* in the loop, the oracle that was read pairs the stable currency with the
\* quote token or with the base token (stated for the two Orca probes, the
\* ones that take --oraclePool).
C14_UselessOracleAborts ==
  (InLoop /\ OracleConsulted) =>
    OraclePairsStableWith(st.quoteMint) \/ OraclePairsStableWith(st.baseMint)

\* C15: a command line whose size list comes out empty is rejected before
\* the pool is fetched: no run with an empty size list completes main()'s
\* set-up, and none ends as a completed run with zero sizes.
C15_EmptySizesRejected == InLoop => Len(sizes) > 0

\* the configuration of the run cannot be completed: main() gave up before
\* the loop (pool not found, not a CLMM pool, no mid price, no conversion), or
\* the stable conversion orca_probe was asked for is unresolved
ConfigurationFailure ==
  \/ pc = "fatal"
  \/ probe = "orca_probe" /\ InLoop /\ StableRequested /\ StableUnresolved

\* C16: a run whose configuration fails issues no quote call and writes
\* nothing to the CSV file, neither the header nor a row.
C16_ConfigFailureWritesNothing ==
  ConfigurationFailure => (calls = << >> /\ out = << >> /\ file = << >> /\ ~exists)

\* C17: orca_probe and raydium_probe declare the same header, the 35 columns
\* of the unified schema in order: the header line either probe writes to a
\* new CSV file is that header.
C17_SameUnifiedHeader ==
  (probe \in {"orca_probe", "raydium_probe"} /\ InLoop /\ cfg.csv) =>
    /\ csvHeader(probe) = UnifiedCsvHeader
    /\ Len(UnifiedCsvHeader) = 35
    /\ file[1] = Line("header", UnifiedCsvHeader)

\* the process has parsed its command line
Parsed == pc # "argv"

\* --range has the form A:B:S with finite A and B and a step S > 0
WellFormedRange(rng) ==
  /\ rng.given /\ rng.colon
  /\ rng.a[2] # 0 /\ rng.b[2] # 0 /\ rng.s[2] # 0
  /\ rng.s[1] > 0

\* A, A+S, A+2S, ... up to the largest such value that is <= B
Progression(a, b, s) ==
  LET n == IF Lt(b, a) THEN 0 ELSE Floor(Div(Sub(b, a), s)) + 1
  IN  [j \in 1..n |-> Add(a, Mul(I(j - 1), s))]

\* the positive entries of a --sizes list, in order
PositiveEntries(list) == SelectSeq(list, LAMBDA n : n[2] # 0 /\ n[1] > 0)

C19_SizesUsedWithoutRange ==
  (Parsed /\ ~cfg.range.given) => sizes = PositiveEntries(cfg.sizes)

\* the quote calls issued for size number k, in the order of their issue
CallsOf(k) == SelectSeq(calls, LAMBDA c : c.k = k)

\* the legs of those calls
LegsOf(k) == [j \in 1..Len(CallsOf(k)) |-> CallsOf(k)[j].leg]

\* the sizes the loop is done with
SizesDone == 1..(IF pc = "done" THEN Len(sizes) ELSE i - 1)

\* C20 as stated: every size the loop is done with has had exactly two quote
\* calls, its BUY call and then its SELL call.
C20_ExactlyTwoCallsPerSize ==
  InLoop => \A k \in SizesDone : LegsOf(k) = << "BUY", "SELL" >>

\* C20, amended: the quote calls of a run are issued one after another in
\* the order of the sizes, and nothing is asked twice: a size has no call, or
\* its BUY call alone, or its BUY call and then its SELL call, the SELL call
\* only after the BUY call was answered; a size with a success row has
\* exactly its two calls; and no call of a size is issued before the row of
\* the size before it has been written.
C20_SequentialNoRetry ==
  InLoop =>
    /\ \A c, d \in 1..Len(calls) :
         c < d => (calls[c].k <= calls[d].k /\ calls[c].at < calls[d].at)
    /\ \A k \in 1..Len(sizes) :
         /\ LegsOf(k) \in { << >>, << "BUY" >>, << "BUY", "SELL" >> }
         /\ Len(CallsOf(k)) = 2 => ~CallsOf(k)[1].ans.throws
    /\ \A r \in OkRows : LegsOf(out[r].k) = << "BUY", "SELL" >>
    /\ \A c \in 1..Len(calls) :
         /\ calls[c].k \in 1..Len(sizes)
         /\ calls[c].k \notin SizesDone => (calls[c].k = i /\ pc \in {"buy", "sell"})
         /\ cfg.csv => calls[c].k <= Len(out) + 1

\* a finished run of two sizes: the BUY call of the first threw, so the size
\* has one call and a failure row; the second has its two calls and its row
C20_Witness ==
  /\ pc = "done" /\ cfg.csv
  /\ Len(sizes) = 2
  /\ LegsOf(1) = << "BUY" >> /\ CallsOf(1)[1].ans.throws
  /\ LegsOf(2) = << "BUY", "SELL" >>
  /\ out[1].kind = "fail" /\ out[2].kind = "ok"

\* C21: with a positive --sleepMs the delay elapses between the quote calls
\* of every two consecutive iterations, whether the earlier one succeeded or
\* failed: calls of different sizes are more than the delay apart.
C21_DelayBetweenIterations ==
  cfg.sleepMs > 0 =>
    \A c, d \in 1..Len(calls) :
      calls[c].k < calls[d].k => calls[d].at - calls[c].at > cfg.sleepMs

\* the columns of the pool snapshot and of the unit configuration
PoolAndUnitColumns ==
  {"dex", "pool", "program_id", "tick_spacing", "fee_ppm", "fee_bps",
   "protocol_fee_ppm", "liquidity_u128", "sqrt_price_x64", "tick_current",
   "mintA", "decA", "symbolA", "mintB", "decB", "symbolB",
   "base_mint", "base_decimals", "base_symbol",
   "quote_mint", "quote_decimals", "quote_symbol", "size_unit", "price_unit"}

\* the positions of those columns in the header of the running probe
PoolAndUnitPositions ==
  { j \in 1..Len(csvHeader(probe)) : csvHeader(probe)[j] \in PoolAndUnitColumns }

\* C22: the pool snapshot and the unit configuration are computed once,
\* before the loop, and shared by all iterations: every quote call of the run
\* is made on the snapshot main() took, and every row of the run, success or
\* failure, holds the same value in each pool column and each unit column.
C22_OneSnapshotPerRun ==
  /\ \A c \in 1..Len(calls) : calls[c].snap = st.snap /\ calls[c].mint = st.quoteMint
  /\ \A r1, r2 \in 1..Len(out) : \A j \in PoolAndUnitPositions :
       out[r1].cells[j].val = out[r2].cells[j].val

\* C23: every size for which a quote call is issued is a finite, strictly
\* positive number, whether the list came from --sizes or from --range.
C23_QuotedSizesPositive ==
  \A c \in 1..Len(calls) :
    LET size == sizes[calls[c].k]
    IN  IsFinite(size) /\ Gt(size, Zero)

\* the B-per-A price of the snapshot: (sqrtPrice / 2^64)^2 x 10^(decA - decB)
PriceBperA ==
  LET square == Num(st.sqrtPriceX64 * st.sqrtPriceX64, Q64 * Q64)
  IN  IF st.decA >= st.decB
        THEN Mul(square, I(Pow10(st.decA - st.decB)))
        ELSE Div(square, I(Pow10(st.decB - st.decA)))

\* C24: in the Raydium probes the stable-currency mid price of the snapshot
\* is the B-per-A price when token B is the stable currency, its reciprocal
\* when token A is the stable currency, and the raw B-per-A price when
\* neither token is.
C24_StableMidPrice ==
  (probe \in {"raydium_probe", "raydium_alt"} /\ InLoop) =>
    st.midUSDperBase =
      CASE st.mintB = USDC -> PriceBperA
        [] st.mintA = USDC -> Recip(PriceBperA)
        [] OTHER -> PriceBperA

\* a snapshot of a USDC/SOL pool at sqrt price 1.0: B per A is 1/1000, and
\* the mid price is its reciprocal
C24_Witness ==
  /\ probe = "raydium_probe" /\ InLoop
  /\ st.mintA = USDC /\ st.mintB = SOL_MINT
  /\ PriceBperA = Num(1, 1000)
  /\ st.midUSDperBase = I(1000)

\* two calls of the same price helper, the first at the lower sqrt price
PricePairs ==
  { pr \in (1..Len(evals)) \X (1..Len(evals)) :
      /\ evals[pr[1]].fn \in {"midBPerA_fromSqrtX64", "calcPxBperA_fromSqrt"}
      /\ evals[pr[1]].fn = evals[pr[2]].fn
      /\ evals[pr[1]].args[2] = evals[pr[2]].args[2]
      /\ evals[pr[1]].args[3] = evals[pr[2]].args[3]
      /\ evals[pr[1]].args[1] < evals[pr[2]].args[1] }

\* C25: for fixed decimals the B-per-A price is strictly
\* increasing in sqrtPriceQ64 over all non-negative fixed-point values.
C25_PriceStrictlyIncreasing ==
  \A pr \in PricePairs : Lt(evals[pr[1]].result, evals[pr[2]].result)

\* the stable-currency price of the token the oracle pool pairs the stable
\* currency with, as the oracle pool's sqrt price gives it
OracleStablePrice ==
  LET dA == ChainDecimals(st.oracleMintA)
      dB == ChainDecimals(st.oracleMintB)
      square == Num(st.oracleSqrtPrice * st.oracleSqrtPrice, Q64 * Q64)
      bPerA == IF dA >= dB THEN Mul(square, I(Pow10(dA - dB)))
               ELSE Div(square, I(Pow10(dB - dA)))
  IN  IF st.oracleMintB = USDC THEN bPerA ELSE Recip(bPerA)

\* a price that is a positive finite number
PositivePrice(x) == x[2] # 0 /\ x[1] > 0

\* C26: in orca_probe, for a pool with a positive finite mid, the two
\* derivations of stablePerQuote agree: with a stable-vs-quote oracle it is
\* the oracle's price; with a stable-vs-base oracle it is stablePerBase /
\* quotePerBase, the value a stable-vs-quote oracle consistent with the
\* pool's mid would report (quotePerBase x stablePerQuote is the oracle's
\* price of the base token); in both cases stablePerBase = quotePerBase x
\* stablePerQuote.
C26_CrossRateConsistent ==
  ( /\ probe = "orca_probe" /\ InLoop /\ OracleConsulted
    /\ PositivePrice(st.pxQuotePerBase) ) =>
    /\ st.usdPerBase = Mul(st.pxQuotePerBase, st.usdPerQuote)
    /\ IF OraclePairsStableWith(st.quoteMint)
         THEN st.usdPerQuote = OracleStablePrice
         ELSE /\ OraclePairsStableWith(st.baseMint)
              /\ st.usdPerBase = OracleStablePrice
              /\ st.usdPerQuote = Div(OracleStablePrice, st.pxQuotePerBase)

\* a run whose oracle pairs the stable currency with the base token, on a
\* pool whose mid is not 1: stablePerQuote is the cross rate
C26_Witness ==
  /\ probe = "orca_probe" /\ InLoop /\ OracleConsulted
  /\ PositivePrice(st.pxQuotePerBase) /\ st.pxQuotePerBase # One
  /\ ~OraclePairsStableWith(st.quoteMint)
  /\ OraclePairsStableWith(st.baseMint)
  /\ st.usdPerQuote = Div(OracleStablePrice, st.pxQuotePerBase)

\* the nearest integer, halves upwards
RoundHalfUp(x) == I(Floor(Add(x, Num(1, 2))))

\* the calls of normalizeFeePpm
FeeEvals == { e \in 1..Len(evals) : evals[e].fn = "normalizeFeePpm" }

\* C27: normalizeFeePpm maps a fee given as a fraction strictly between 0
\* and 1 to round(fraction x 1,000,000), a fee of 1 or more (a ppm count) to
\* that value rounded, and a missing, zero or non-finite fee to 0.
C27_FeeNormalized ==
  \A e \in FeeEvals :
    LET raw == evals[e].args[1]
        ppm == evals[e].result
    IN  IF raw[2] = 0 \/ raw[1] = 0 THEN ppm = Zero
        ELSE IF raw[1] < raw[2] THEN ppm = RoundHalfUp(Mul(raw, I(1000000)))
        ELSE ppm = RoundHalfUp(raw)

\* the fraction 1/2500 normalised to 400 ppm and the ppm count 3/2 to 2
C27_Witness ==
  /\ Len(evals) = 2
  /\ evals[1].fn = "normalizeFeePpm"
  /\ evals[1].args = << Num(1, 2500) >> /\ evals[1].result = I(400)
  /\ evals[2].args = << Num(3, 2) >> /\ evals[2].result = I(2)

\* orca_probe logged "Auto-detected SOL as quote token": no --quoteMint was
\* given, a pool token is SOL, and argv.quoteMint now holds the SOL mint
AutoDetectedSol ==
  /\ probe = "orca_probe" /\ InLoop
  /\ SOL_MINT \in {st.mintA, st.mintB}
  /\ cfg.quoteMint = SOL_MINT

\* C28: in orca_probe without a --quoteMint override, whenever the probe
\* reports that it auto-detected SOL as the quote token, the quote token it
\* quotes with is the SOL mint.
C28_AutoDetectedSolIsQuote ==
  AutoDetectedSol =>
    /\ st.quoteMint = SOL_MINT
    /\ \A c \in 1..Len(calls) : calls[c].mint = SOL_MINT

\* the success rows orca_probe wrote with a stable conversion at hand, on a
\* pool whose mid and whose stable-per-quote rate are positive finite numbers
ConvertedRows ==
  { k \in OkRows : /\ probe = "orca_probe" /\ st.haveUSD
                   /\ PositivePrice(st.pxQuotePerBase)
                   /\ PositivePrice(st.usdPerQuote) }

\* the value a row holds under a column
ValueUnder(row, name) == CellUnder(row, name).val

\* C29: on every success row of orca_probe written with a stable conversion
\* at hand (positive finite mid and rate), each price in the stable currency is the price in the quote token
\* times usd_per_quote, for the BUY price, the SELL price and the mid, so that
\* roundtrip_bps is the same whether it is taken from the prices in the
\* stable currency or from the prices in the quote token.
C29_StablePricesAreQuoteTimesRate ==
  \A k \in ConvertedRows :
    LET row == out[k]
        rate == ValueUnder(row, "usd_per_quote")
    IN  /\ ValueUnder(row, "buy_px_usd_per_base") =
             Mul(ValueUnder(row, "buy_px_quote_per_base"), rate)
        /\ ValueUnder(row, "sell_px_usd_per_base") =
             Mul(ValueUnder(row, "sell_px_quote_per_base"), rate)
        /\ ValueUnder(row, "mid_usd_per_base") =
             Mul(ValueUnder(row, "mid_quote_per_base"), rate)
        /\ ValueUnder(row, "roundtrip_bps") =
             toBps(Div(Sub(ValueUnder(row, "buy_px_quote_per_base"),
                           ValueUnder(row, "sell_px_quote_per_base")),
                       ValueUnder(row, "mid_quote_per_base")))
        /\ ValueUnder(row, "roundtrip_bps") =
             toBps(Div(Sub(ValueUnder(row, "buy_px_usd_per_base"),
                           ValueUnder(row, "sell_px_usd_per_base")),
                       ValueUnder(row, "mid_usd_per_base")))

\* the sizes whose BUY quote failed: the provider threw, or it answered a
\* base amount that is not strictly positive
BuyFailed ==
  { k \in 1..Len(sizes) :
      \E c \in 1..Len(calls) :
        /\ calls[c].k = k /\ calls[c].leg = "BUY"
        /\ (calls[c].ans.throws \/ calls[c].ans.amount <= 0) }

\* the rows written for a size
RowsOf(k) == { r \in 1..Len(out) : out[r].k = k }

\* C30: within one iteration, if the BUY leg fails (the provider throws or
\* answers a non-positive base amount) no SELL quote is issued for that size,
\* and once the loop is done with the size it has exactly one row, a failure
\* row (rows stated for runs that write a CSV).
C30_FailedBuySkipsSell ==
  InLoop =>
    \A k \in BuyFailed :
      /\ LegsOf(k) = << "BUY" >>
      /\ (cfg.csv /\ k \in SizesDone) =>
            /\ Cardinality(RowsOf(k)) = 1
            /\ \A r \in RowsOf(k) : out[r].kind = "fail"

====
